---- MODULE Spec2Model ----
(***************************************************************************)
(* Streaming reconstruction of a model response (pydantic_ai).             *)
(*                                                                         *)
(* messages.py gives the parts, the deltas and the merge operators;        *)
(* models/function.py gives the streamed response that feeds a             *)
(* ModelResponsePartsManager and forwards its events.  The manager's own   *)
(* module (pydantic_ai/_parts_manager.py) is imported by function.py but   *)
(* is not among the sources: its three operations are modelled from        *)
(* section 4.2 of the specification.  The PeekableAsyncStream of           *)
(* pydantic_ai/_utils.py, which request_stream wraps around the stream     *)
(* function, is not among the sources either: peek and __anext__ are       *)
(* modelled as a one-item buffer in front of the source.                   *)
(*                                                                         *)
(* pydantic_ai_graph/graph.py gives the construction of a Graph and the    *)
(* run loop of a GraphRun, which are followed by variables of their own.   *)
(*                                                                         *)
(* Python values whose type is tested at run time (isinstance, `is None`,  *)
(* truthiness) are tagged records [type, v]; fields that are always `str`  *)
(* or always `int` are plain strings and numbers.  A dict is a function    *)
(* from its keys.  A call either returns a value or raises:                *)
(* [ok |-> TRUE, value] or [ok |-> FALSE, raised].                         *)
(***************************************************************************)
EXTENDS Integers, Sequences, FiniteSets, TLC

VARIABLES
    parts,                   \* ModelResponsePartsManager._parts (the slots)
    vendor_id_to_part_index, \* ModelResponsePartsManager._vendor_id_to_part_index
    log,                     \* one entry per fragment handled, in arrival order
    response,                \* what FunctionStreamedResponse.get last returned
    delivered,               \* how many emitted events the consumer has consumed
    consumer,                \* the parts the consumer holds, by event index
    phase,                   \* where request_stream and the event iterator stand
    produced,                \* the items the stream function has yielded so far
    response_stream,         \* the PeekableAsyncStream around the stream function
    delta_tool_calls,        \* the entries of the current item still to be handled
    yielded,                 \* the events the streamed response has yielded so far
    graph,                   \* what Graph(nodes=...) gave: a Graph, or the error raised
    graph_run                \* the GraphRun: where it stands, its history, its outcome

\* The variables of request_stream and of the event iterator.
streamVars == <<phase, produced, response_stream, delta_tool_calls, yielded>>

\* The variables of pydantic_ai_graph.
graphVars == <<graph, graph_run>>

vars == <<parts, vendor_id_to_part_index, log, response, delivered, consumer,
          phase, produced, response_stream, delta_tool_calls, yielded,
          graph, graph_run>>

\* The number of fragments of one stream.
MaxFragments == 3

---------------------------------------------------------------------------
(* Python values *)

None == [type |-> "NoneType"]

PyStr(s) == [type |-> "str", v |-> s]

PyInt(i) == [type |-> "int", v |-> i]

PyDict(d) == [type |-> "dict", v |-> d]

isinstance(x, t) == x.type = t

\* Truthiness of a value: None, '' and {} are falsy.
bool(x) ==
    CASE x.type = "NoneType" -> FALSE
      [] x.type = "str" -> x.v # ""
      [] x.type = "dict" -> DOMAIN x.v # {}
      [] OTHER -> TRUE

\* `x or default`
PyOr(x, default) == IF bool(x) THEN x ELSE default

EmptyDict == [k \in {} |-> 0]

\* {**a, **b}: the keys of b replace those of a, the other keys of a are kept.
DictMerge(a, b) ==
    [k \in (DOMAIN a) \cup (DOMAIN b) |-> IF k \in DOMAIN b THEN b[k] ELSE a[k]]

Return(x) == [ok |-> TRUE, value |-> x]

Raise(exc, msg) == [ok |-> FALSE, raised |-> [exc |-> exc, msg |-> msg]]

---------------------------------------------------------------------------
(* messages.py: parts *)

TextPart(content) == [cls |-> "TextPart", content |-> content]

ArgsJson(args_json) == [cls |-> "ArgsJson", args_json |-> args_json]

ArgsDict(args_dict) == [cls |-> "ArgsDict", args_dict |-> args_dict]

ToolCallPart(tool_name, args, tool_call_id) ==
    [cls |-> "ToolCallPart", tool_name |-> tool_name, args |-> args,
     tool_call_id |-> tool_call_id]

\* ToolCallPart.from_raw_args: tool_name is a str, args a str or a dict.
from_raw_args(tool_name, args, tool_call_id) ==
    IF isinstance(args, "str")
    THEN ToolCallPart(tool_name.v, ArgsJson(args.v), tool_call_id)
    ELSE ToolCallPart(tool_name.v, ArgsDict(args.v), tool_call_id)

(* messages.py: deltas *)

TextPartDelta(content_delta) ==
    [cls |-> "TextPartDelta", content_delta |-> content_delta]

ToolCallPartDelta(tool_name_delta, args_delta, tool_call_id) ==
    [cls |-> "ToolCallPartDelta", tool_name_delta |-> tool_name_delta,
     args_delta |-> args_delta, tool_call_id |-> tool_call_id]

\* Mutant of TextPartDelta.apply: the delta is put in front of the content.
TextPartDelta_apply_prepends(self, part) ==
    IF part.cls # "TextPart"
    THEN Raise("ValueError", "Cannot apply TextPartDeltas to non-TextParts")
    ELSE Return([part EXCEPT !.content = self.content_delta \o part.content])

\* Mutant of TextPartDelta.apply: a part that is not a text part is returned
\* as it is instead of being refused.
TextPartDelta_apply_passes_others(self, part) ==
    IF part.cls # "TextPart"
    THEN Return(part)
    ELSE Return([part EXCEPT !.content = part.content \o self.content_delta])

\* TextPartDelta.apply
TextPartDelta_apply(self, part) ==
    IF part.cls # "TextPart"
    THEN Raise("ValueError", "Cannot apply TextPartDeltas to non-TextParts")
    ELSE Return([part EXCEPT !.content = part.content \o self.content_delta])

\* Mutant of as_part: the name and the args are tested by truthiness, so an
\* empty name or empty args count as missing.
as_part_needs_truthy(self) ==
    IF ~bool(self.tool_name_delta) \/ ~bool(self.args_delta)
    THEN None
    ELSE from_raw_args(self.tool_name_delta, self.args_delta, self.tool_call_id)

\* ToolCallPartDelta.as_part: a part, or None while the name or the args miss.
as_part(self) ==
    IF self.tool_name_delta = None \/ self.args_delta = None
    THEN None
    ELSE from_raw_args(self.tool_name_delta, self.args_delta, self.tool_call_id)

\* Mutant of _apply_to_delta: the args are folded into a copy of self instead
\* of the accumulated delta, which loses the accumulated name.
_apply_to_delta_folds_into_self(self, delta) ==
    LET folded ==
            IF isinstance(self.args_delta, "str")
            THEN [self EXCEPT !.args_delta =
                      PyStr(PyOr(delta.args_delta, PyStr("")).v \o self.args_delta.v)]
            ELSE IF isinstance(self.args_delta, "dict")
            THEN [self EXCEPT !.args_delta =
                      PyDict(DictMerge(PyOr(delta.args_delta, PyDict(EmptyDict)).v,
                                       self.args_delta.v))]
            ELSE [delta EXCEPT !.tool_name_delta =
                      IF bool(self.tool_name_delta)
                      THEN PyStr(PyOr(delta.tool_name_delta, PyStr("")).v
                                 \o self.tool_name_delta.v)
                      ELSE delta.tool_name_delta]
    IN  IF \/ isinstance(self.args_delta, "str") /\ isinstance(delta.args_delta, "dict")
           \/ isinstance(self.args_delta, "dict") /\ isinstance(delta.args_delta, "str")
        THEN Raise("NotImplementedError",
                   "Cannot apply a JSON args delta to a dict args delta")
        ELSE IF folded.tool_name_delta # None /\ folded.args_delta # None
        THEN Return(from_raw_args(folded.tool_name_delta, folded.args_delta,
                                  folded.tool_call_id))
        ELSE Return(folded)

\* Mutant of _apply_to_delta: in a pending delta the keys already held win
\* over those of the fragment.
_apply_to_delta_keeps_old_keys(self, delta) ==
    LET d1 == IF bool(self.tool_name_delta)
              THEN [delta EXCEPT !.tool_name_delta =
                        PyStr(PyOr(delta.tool_name_delta, PyStr("")).v
                              \o self.tool_name_delta.v)]
              ELSE delta
        argsConflict ==
            \/ isinstance(self.args_delta, "str") /\ isinstance(d1.args_delta, "dict")
            \/ isinstance(self.args_delta, "dict") /\ isinstance(d1.args_delta, "str")
        d2 == IF isinstance(self.args_delta, "str")
              THEN [d1 EXCEPT !.args_delta =
                        PyStr(PyOr(d1.args_delta, PyStr("")).v \o self.args_delta.v)]
              ELSE IF isinstance(self.args_delta, "dict")
              THEN [d1 EXCEPT !.args_delta =
                        PyDict(DictMerge(self.args_delta.v,
                                         PyOr(d1.args_delta, PyDict(EmptyDict)).v))]
              ELSE d1
        idConflict ==
            /\ bool(self.tool_call_id)
            /\ d2.tool_call_id # None
            /\ d2.tool_call_id # self.tool_call_id
        d3 == IF bool(self.tool_call_id)
              THEN [d2 EXCEPT !.tool_call_id = self.tool_call_id]
              ELSE d2
    IN  IF argsConflict
        THEN IF isinstance(self.args_delta, "str")
             THEN Raise("NotImplementedError",
                        "Cannot apply a JSON args delta to a dict args delta")
             ELSE Raise("NotImplementedError",
                        "Cannot apply a dict args delta to a JSON args delta")
        ELSE IF idConflict
        THEN Raise("ValueError",
                   "Cannot apply a new tool_call_id to a ToolCallPartDelta that already has one")
        ELSE IF d3.tool_name_delta # None /\ d3.args_delta # None
        THEN Return(from_raw_args(d3.tool_name_delta, d3.args_delta, d3.tool_call_id))
        ELSE Return(d3)

\* Mutant of _apply_to_delta: the part is built only when the name and the
\* args folded so far are non-empty.
_apply_to_delta_needs_truthy(self, delta) ==
    LET d1 == IF bool(self.tool_name_delta)
              THEN [delta EXCEPT !.tool_name_delta =
                        PyStr(PyOr(delta.tool_name_delta, PyStr("")).v
                              \o self.tool_name_delta.v)]
              ELSE delta
        argsConflict ==
            \/ isinstance(self.args_delta, "str") /\ isinstance(d1.args_delta, "dict")
            \/ isinstance(self.args_delta, "dict") /\ isinstance(d1.args_delta, "str")
        d2 == IF isinstance(self.args_delta, "str")
              THEN [d1 EXCEPT !.args_delta =
                        PyStr(PyOr(d1.args_delta, PyStr("")).v \o self.args_delta.v)]
              ELSE IF isinstance(self.args_delta, "dict")
              THEN [d1 EXCEPT !.args_delta =
                        PyDict(DictMerge(PyOr(d1.args_delta, PyDict(EmptyDict)).v,
                                         self.args_delta.v))]
              ELSE d1
        idConflict ==
            /\ bool(self.tool_call_id)
            /\ d2.tool_call_id # None
            /\ d2.tool_call_id # self.tool_call_id
        d3 == IF bool(self.tool_call_id)
              THEN [d2 EXCEPT !.tool_call_id = self.tool_call_id]
              ELSE d2
    IN  IF argsConflict
        THEN IF isinstance(self.args_delta, "str")
             THEN Raise("NotImplementedError",
                        "Cannot apply a JSON args delta to a dict args delta")
             ELSE Raise("NotImplementedError",
                        "Cannot apply a dict args delta to a JSON args delta")
        ELSE IF idConflict
        THEN Raise("ValueError",
                   "Cannot apply a new tool_call_id to a ToolCallPartDelta that already has one")
        ELSE IF bool(d3.tool_name_delta) /\ bool(d3.args_delta)
        THEN Return(from_raw_args(d3.tool_name_delta, d3.args_delta, d3.tool_call_id))
        ELSE Return(d3)

\* Mutant of _apply_to_delta: a mapping is folded into a pending delta that
\* holds a string, whose args it replaces.
_apply_to_delta_takes_mapping_over_string(self, delta) ==
    LET d1 == IF bool(self.tool_name_delta)
              THEN [delta EXCEPT !.tool_name_delta =
                        PyStr(PyOr(delta.tool_name_delta, PyStr("")).v
                              \o self.tool_name_delta.v)]
              ELSE delta
        argsConflict ==
            isinstance(self.args_delta, "str") /\ isinstance(d1.args_delta, "dict")
        d2 == IF isinstance(self.args_delta, "str")
              THEN [d1 EXCEPT !.args_delta =
                        PyStr(PyOr(d1.args_delta, PyStr("")).v \o self.args_delta.v)]
              ELSE IF isinstance(self.args_delta, "dict")
              THEN [d1 EXCEPT !.args_delta =
                        PyDict(DictMerge(IF isinstance(d1.args_delta, "dict")
                                         THEN d1.args_delta.v ELSE EmptyDict,
                                         self.args_delta.v))]
              ELSE d1
        idConflict ==
            /\ bool(self.tool_call_id)
            /\ d2.tool_call_id # None
            /\ d2.tool_call_id # self.tool_call_id
        d3 == IF bool(self.tool_call_id)
              THEN [d2 EXCEPT !.tool_call_id = self.tool_call_id]
              ELSE d2
    IN  IF argsConflict
        THEN Raise("NotImplementedError",
                   "Cannot apply a JSON args delta to a dict args delta")
        ELSE IF idConflict
        THEN Raise("ValueError",
                   "Cannot apply a new tool_call_id to a ToolCallPartDelta that already has one")
        ELSE IF d3.tool_name_delta # None /\ d3.args_delta # None
        THEN Return(from_raw_args(d3.tool_name_delta, d3.args_delta, d3.tool_call_id))
        ELSE Return(d3)

\* Mutant of _apply_to_delta: the call id of the fragment is checked against
\* the one held but not kept.
_apply_to_delta_forgets_call_id(self, delta) ==
    LET d1 == IF bool(self.tool_name_delta)
              THEN [delta EXCEPT !.tool_name_delta =
                        PyStr(PyOr(delta.tool_name_delta, PyStr("")).v
                              \o self.tool_name_delta.v)]
              ELSE delta
        argsConflict ==
            \/ isinstance(self.args_delta, "str") /\ isinstance(d1.args_delta, "dict")
            \/ isinstance(self.args_delta, "dict") /\ isinstance(d1.args_delta, "str")
        d2 == IF isinstance(self.args_delta, "str")
              THEN [d1 EXCEPT !.args_delta =
                        PyStr(PyOr(d1.args_delta, PyStr("")).v \o self.args_delta.v)]
              ELSE IF isinstance(self.args_delta, "dict")
              THEN [d1 EXCEPT !.args_delta =
                        PyDict(DictMerge(PyOr(d1.args_delta, PyDict(EmptyDict)).v,
                                         self.args_delta.v))]
              ELSE d1
        idConflict ==
            /\ bool(self.tool_call_id)
            /\ d2.tool_call_id # None
            /\ d2.tool_call_id # self.tool_call_id
    IN  IF argsConflict
        THEN IF isinstance(self.args_delta, "str")
             THEN Raise("NotImplementedError",
                        "Cannot apply a JSON args delta to a dict args delta")
             ELSE Raise("NotImplementedError",
                        "Cannot apply a dict args delta to a JSON args delta")
        ELSE IF idConflict
        THEN Raise("ValueError",
                   "Cannot apply a new tool_call_id to a ToolCallPartDelta that already has one")
        ELSE IF d2.tool_name_delta # None /\ d2.args_delta # None
        THEN Return(from_raw_args(d2.tool_name_delta, d2.args_delta, d2.tool_call_id))
        ELSE Return(d2)

\* ToolCallPartDelta._apply_to_delta: fold self into a pending delta.
_apply_to_delta(self, delta) ==
    LET d1 == IF bool(self.tool_name_delta)
              THEN [delta EXCEPT !.tool_name_delta =
                        PyStr(PyOr(delta.tool_name_delta, PyStr("")).v
                              \o self.tool_name_delta.v)]
              ELSE delta
        argsConflict ==
            \/ isinstance(self.args_delta, "str") /\ isinstance(d1.args_delta, "dict")
            \/ isinstance(self.args_delta, "dict") /\ isinstance(d1.args_delta, "str")
        d2 == IF isinstance(self.args_delta, "str")
              THEN [d1 EXCEPT !.args_delta =
                        PyStr(PyOr(d1.args_delta, PyStr("")).v \o self.args_delta.v)]
              ELSE IF isinstance(self.args_delta, "dict")
              THEN [d1 EXCEPT !.args_delta =
                        PyDict(DictMerge(PyOr(d1.args_delta, PyDict(EmptyDict)).v,
                                         self.args_delta.v))]
              ELSE d1
        idConflict ==
            /\ bool(self.tool_call_id)
            /\ d2.tool_call_id # None
            /\ d2.tool_call_id # self.tool_call_id
        d3 == IF bool(self.tool_call_id)
              THEN [d2 EXCEPT !.tool_call_id = self.tool_call_id]
              ELSE d2
    IN  IF argsConflict
        THEN IF isinstance(self.args_delta, "str")
             THEN Raise("NotImplementedError",
                        "Cannot apply a JSON args delta to a dict args delta")
             ELSE Raise("NotImplementedError",
                        "Cannot apply a dict args delta to a JSON args delta")
        ELSE IF idConflict
        THEN Raise("ValueError",
                   "Cannot apply a new tool_call_id to a ToolCallPartDelta that already has one")
        ELSE IF d3.tool_name_delta # None /\ d3.args_delta # None
        THEN Return(from_raw_args(d3.tool_name_delta, d3.args_delta, d3.tool_call_id))
        ELSE Return(d3)

\* Mutant of _apply_to_part: the kind of the part's args is not checked; args
\* of the other kind are skipped and the rest of the delta is applied.
_apply_to_part_skips_other_kind(self, part) ==
    LET p1 == IF bool(self.tool_name_delta)
              THEN [part EXCEPT !.tool_name = part.tool_name \o self.tool_name_delta.v]
              ELSE part
        p2 == IF isinstance(self.args_delta, "str") /\ p1.args.cls = "ArgsJson"
              THEN [p1 EXCEPT !.args = ArgsJson(p1.args.args_json \o self.args_delta.v)]
              ELSE IF isinstance(self.args_delta, "dict") /\ p1.args.cls = "ArgsDict"
              THEN [p1 EXCEPT !.args =
                        ArgsDict(DictMerge(p1.args.args_dict, self.args_delta.v))]
              ELSE p1
    IN  Return(IF bool(self.tool_call_id)
               THEN [p2 EXCEPT !.tool_call_id = self.tool_call_id]
               ELSE p2)

\* Mutant of _apply_to_part: args of the other kind replace the part's args.
_apply_to_part_switches_kind(self, part) ==
    LET p1 == IF bool(self.tool_name_delta)
              THEN [part EXCEPT !.tool_name = part.tool_name \o self.tool_name_delta.v]
              ELSE part
        p2 == IF isinstance(self.args_delta, "str")
              THEN [p1 EXCEPT !.args =
                        ArgsJson((IF p1.args.cls = "ArgsJson" THEN p1.args.args_json ELSE "")
                                 \o self.args_delta.v)]
              ELSE IF isinstance(self.args_delta, "dict")
              THEN [p1 EXCEPT !.args =
                        ArgsDict(DictMerge(IF p1.args.cls = "ArgsDict"
                                           THEN p1.args.args_dict ELSE EmptyDict,
                                           self.args_delta.v))]
              ELSE p1
    IN  Return(IF bool(self.tool_call_id)
               THEN [p2 EXCEPT !.tool_call_id = self.tool_call_id]
               ELSE p2)

\* Mutant of _apply_to_part: a new tool_call_id replaces the one the part has.
_apply_to_part_overwrites_call_id(self, part) ==
    LET p1 == IF bool(self.tool_name_delta)
              THEN [part EXCEPT !.tool_name = part.tool_name \o self.tool_name_delta.v]
              ELSE part
        argsConflict ==
            \/ isinstance(self.args_delta, "str") /\ p1.args.cls # "ArgsJson"
            \/ isinstance(self.args_delta, "dict") /\ p1.args.cls # "ArgsDict"
        p2 == IF isinstance(self.args_delta, "str")
              THEN [p1 EXCEPT !.args = ArgsJson(p1.args.args_json \o self.args_delta.v)]
              ELSE IF isinstance(self.args_delta, "dict")
              THEN [p1 EXCEPT !.args =
                        ArgsDict(DictMerge(p1.args.args_dict, self.args_delta.v))]
              ELSE p1
    IN  IF argsConflict
        THEN IF isinstance(self.args_delta, "str")
             THEN Raise("ValueError", "Cannot apply deltas to non-JSON tool arguments")
             ELSE Raise("ValueError", "Cannot apply deltas to non-dict tool arguments")
        ELSE Return(IF bool(self.tool_call_id)
                    THEN [p2 EXCEPT !.tool_call_id = self.tool_call_id]
                    ELSE p2)

\* Mutant of _apply_to_part: the name fragment is put before the part's name.
_apply_to_part_prepends_name(self, part) ==
    LET p1 == IF bool(self.tool_name_delta)
              THEN [part EXCEPT !.tool_name = self.tool_name_delta.v \o part.tool_name]
              ELSE part
        argsConflict ==
            \/ isinstance(self.args_delta, "str") /\ p1.args.cls # "ArgsJson"
            \/ isinstance(self.args_delta, "dict") /\ p1.args.cls # "ArgsDict"
        p2 == IF isinstance(self.args_delta, "str")
              THEN [p1 EXCEPT !.args = ArgsJson(p1.args.args_json \o self.args_delta.v)]
              ELSE IF isinstance(self.args_delta, "dict")
              THEN [p1 EXCEPT !.args =
                        ArgsDict(DictMerge(p1.args.args_dict, self.args_delta.v))]
              ELSE p1
        idConflict ==
            /\ bool(self.tool_call_id)
            /\ p2.tool_call_id # None
            /\ p2.tool_call_id # self.tool_call_id
    IN  IF argsConflict
        THEN IF isinstance(self.args_delta, "str")
             THEN Raise("ValueError", "Cannot apply deltas to non-JSON tool arguments")
             ELSE Raise("ValueError", "Cannot apply deltas to non-dict tool arguments")
        ELSE IF idConflict
        THEN Raise("ValueError",
                   "Cannot apply a new tool_call_id to a ToolCallPart that already has one")
        ELSE Return(IF bool(self.tool_call_id)
                    THEN [p2 EXCEPT !.tool_call_id = self.tool_call_id]
                    ELSE p2)

\* Mutant of _apply_to_part: on a call id conflict the part is returned with
\* the name and the args of the fragment applied and its own call id kept.
_apply_to_part_keeps_rest_on_conflict(self, part) ==
    LET p1 == IF bool(self.tool_name_delta)
              THEN [part EXCEPT !.tool_name = part.tool_name \o self.tool_name_delta.v]
              ELSE part
        argsConflict ==
            \/ isinstance(self.args_delta, "str") /\ p1.args.cls # "ArgsJson"
            \/ isinstance(self.args_delta, "dict") /\ p1.args.cls # "ArgsDict"
        p2 == IF isinstance(self.args_delta, "str")
              THEN [p1 EXCEPT !.args = ArgsJson(p1.args.args_json \o self.args_delta.v)]
              ELSE IF isinstance(self.args_delta, "dict")
              THEN [p1 EXCEPT !.args =
                        ArgsDict(DictMerge(p1.args.args_dict, self.args_delta.v))]
              ELSE p1
        idConflict ==
            /\ bool(self.tool_call_id)
            /\ p2.tool_call_id # None
            /\ p2.tool_call_id # self.tool_call_id
    IN  IF argsConflict
        THEN IF isinstance(self.args_delta, "str")
             THEN Raise("ValueError", "Cannot apply deltas to non-JSON tool arguments")
             ELSE Raise("ValueError", "Cannot apply deltas to non-dict tool arguments")
        ELSE IF idConflict
        THEN Return(p2)
        ELSE Return(IF bool(self.tool_call_id)
                    THEN [p2 EXCEPT !.tool_call_id = self.tool_call_id]
                    ELSE p2)

\* ToolCallPartDelta._apply_to_part: apply self to a materialized tool call.
_apply_to_part(self, part) ==
    LET p1 == IF bool(self.tool_name_delta)
              THEN [part EXCEPT !.tool_name = part.tool_name \o self.tool_name_delta.v]
              ELSE part
        argsConflict ==
            \/ isinstance(self.args_delta, "str") /\ p1.args.cls # "ArgsJson"
            \/ isinstance(self.args_delta, "dict") /\ p1.args.cls # "ArgsDict"
        p2 == IF isinstance(self.args_delta, "str")
              THEN [p1 EXCEPT !.args = ArgsJson(p1.args.args_json \o self.args_delta.v)]
              ELSE IF isinstance(self.args_delta, "dict")
              THEN [p1 EXCEPT !.args =
                        ArgsDict(DictMerge(p1.args.args_dict, self.args_delta.v))]
              ELSE p1
        idConflict ==
            /\ bool(self.tool_call_id)
            /\ p2.tool_call_id # None
            /\ p2.tool_call_id # self.tool_call_id
        p3 == IF bool(self.tool_call_id)
              THEN [p2 EXCEPT !.tool_call_id = self.tool_call_id]
              ELSE p2
    IN  IF argsConflict
        THEN IF isinstance(self.args_delta, "str")
             THEN Raise("ValueError", "Cannot apply deltas to non-JSON tool arguments")
             ELSE Raise("ValueError", "Cannot apply deltas to non-dict tool arguments")
        ELSE IF idConflict
        THEN Raise("ValueError",
                   "Cannot apply a new tool_call_id to a ToolCallPart that already has one")
        ELSE Return(p3)

\* Mutant of ToolCallPartDelta.apply: a text part gives way to the delta,
\* which takes its place as a pending tool call.
ToolCallPartDelta_apply_replaces_text(self, part) ==
    IF part.cls = "ToolCallPart" THEN _apply_to_part(self, part)
    ELSE IF part.cls = "ToolCallPartDelta" THEN _apply_to_delta(self, part)
    ELSE Return(self)

\* ToolCallPartDelta.apply: dispatch on what the slot holds.
ToolCallPartDelta_apply(self, part) ==
    IF part.cls = "ToolCallPart" THEN _apply_to_part(self, part)
    ELSE IF part.cls = "ToolCallPartDelta" THEN _apply_to_delta(self, part)
    ELSE Raise("ValueError",
               "Can only apply ToolCallPartDeltas to ToolCallParts or ToolCallPartDeltas")

(* messages.py: events *)

\* Mutant of PartStartEvent: positions are counted from one.
PartStartEvent_counts_from_one(index, part) ==
    [event_kind |-> "part_start", index |-> index + 1, part |-> part]

PartStartEvent(index, part) ==
    [event_kind |-> "part_start", index |-> index, part |-> part]

PartDeltaEvent(index, delta) ==
    [event_kind |-> "part_delta", index |-> index, delta |-> delta]

---------------------------------------------------------------------------
(* _parts_manager.py: ModelResponsePartsManager (specification, section 4.2) *)

\* The slot at a position (positions count from 0).
SlotAt(ps, part_index) == ps[part_index + 1]

\* The slot of a vendor identifier that has one.
SlotOf(ps, index, vendor_part_id) == SlotAt(ps, index[vendor_part_id])

\* index[key] = value
DictSet(index, key, value) ==
    [k \in (DOMAIN index) \cup {key} |-> IF k = key THEN value ELSE index[k]]

\* Mutant of lookup: a position is tested by truthiness, so position 0 reads
\* as "no position".
lookup_zero_is_falsy(index, vendor_part_id) ==
    IF vendor_part_id \in DOMAIN index /\ index[vendor_part_id] # 0
    THEN PyInt(index[vendor_part_id])
    ELSE None

\* The position an identifier is mapped to, None for an unseen identifier.
lookup(index, vendor_part_id) ==
    IF vendor_part_id \in DOMAIN index THEN PyInt(index[vendor_part_id]) ELSE None

\* Mutant of allocate: the new identifier takes the last slot instead of a new one.
allocate_takes_last_slot(ps, index, vendor_part_id, slot) ==
    IF ps = << >>
    THEN [parts |-> Append(ps, slot), index |-> DictSet(index, vendor_part_id, 0),
          part_index |-> 0]
    ELSE [parts |-> [ps EXCEPT ![Len(ps)] = slot],
          index |-> DictSet(index, vendor_part_id, Len(ps) - 1),
          part_index |-> Len(ps) - 1]

\* Unseen identifier: the next position is allocated, bound to the identifier
\* and filled with the slot.
allocate(ps, index, vendor_part_id, slot) ==
    [parts |-> Append(ps, slot), index |-> DictSet(index, vendor_part_id, Len(ps)),
     part_index |-> Len(ps)]

\* What a manager operation leaves: the slots, the identifier mapping, and
\* the event or None it returns or the error it raises.
Handled(ps, index, result) == [parts |-> ps, index |-> index, result |-> result]

\* handle_text_delta(vendor_part_id, content)
handle_text_delta(ps, index, vendor_part_id, content) ==
    LET part_index == lookup(index, vendor_part_id)
    IN  IF part_index = None
        THEN LET part == TextPart(content)
                 new == allocate(ps, index, vendor_part_id, part)
             IN  Handled(new.parts, new.index,
                         Return(PartStartEvent(new.part_index, part)))
        ELSE LET part_delta == TextPartDelta(content)
                 applied == TextPartDelta_apply(part_delta, SlotAt(ps, part_index.v))
             IN  IF ~applied.ok
                 THEN Handled(ps, index, applied)
                 ELSE Handled([ps EXCEPT ![part_index.v + 1] = applied.value], index,
                              Return(PartDeltaEvent(part_index.v, part_delta)))

\* Mutant of tool_call_event: every fragment that leaves a part announces it
\* as started.
tool_call_event_always_starts(existing_part, updated_part, part_index, delta) ==
    IF updated_part.cls = "ToolCallPartDelta" THEN None
    ELSE PartStartEvent(part_index, updated_part)

\* Mutant of tool_call_event: a part that materializes from a pending delta is
\* announced as an update carrying the last fragment only.
tool_call_event_never_starts(existing_part, updated_part, part_index, delta) ==
    IF updated_part.cls = "ToolCallPartDelta" THEN None
    ELSE PartDeltaEvent(part_index, delta)

\* The event of a tool-call fragment applied to a seen identifier: none while
\* the slot stays pending, "part started" when the slot materializes, "part
\* updated" with the fragment's delta when it already held a part.
tool_call_event(existing_part, updated_part, part_index, delta) ==
    IF updated_part.cls = "ToolCallPartDelta" THEN None
    ELSE IF existing_part.cls = "ToolCallPartDelta"
    THEN PartStartEvent(part_index, updated_part)
    ELSE PartDeltaEvent(part_index, delta)

\* handle_tool_call_delta(vendor_part_id, tool_name, args, tool_call_id)
handle_tool_call_delta(ps, index, vendor_part_id, tool_name, args, tool_call_id) ==
    LET delta == ToolCallPartDelta(tool_name, args, tool_call_id)
        part_index == lookup(index, vendor_part_id)
    IN  IF part_index = None
        THEN LET part == as_part(delta)
             IN  IF part # None
                 THEN LET new == allocate(ps, index, vendor_part_id, part)
                      IN  Handled(new.parts, new.index,
                                  Return(PartStartEvent(new.part_index, part)))
                 ELSE LET new == allocate(ps, index, vendor_part_id, delta)
                      IN  Handled(new.parts, new.index, Return(None))
        ELSE LET existing_part == SlotAt(ps, part_index.v)
                 applied == ToolCallPartDelta_apply(delta, existing_part)
             IN  IF ~applied.ok
                 THEN Handled(ps, index, applied)
                 ELSE Handled([ps EXCEPT ![part_index.v + 1] = applied.value], index,
                              Return(tool_call_event(existing_part, applied.value,
                                                     part_index.v, delta)))

\* Mutant of get_parts: every slot is returned, pending or not.
get_parts_keeps_pending(ps) == ps

\* get_parts(): the slots that hold a part, pending deltas left out.
get_parts(ps) == SelectSeq(ps, LAMBDA p : p.cls # "ToolCallPartDelta")

---------------------------------------------------------------------------
(* The inputs of a stream *)

\* 'content' is the identifier function.py gives every text item; the
\* integers are the keys of a DeltaToolCalls item.
VendorIds == {PyStr("content"), PyInt(0), PyInt(1)}

ToolCallIndexes == {PyInt(0), PyInt(1)}

TwoIds == {PyStr("content"), PyInt(0)}

TextContents == {"a", "b"}

ToolNames == {None, PyStr(""), PyStr("n")}

JsonArgs == {None, PyStr("x")}

ArgsDeltas == JsonArgs \cup {PyDict(EmptyDict), PyDict([k \in {"k"} |-> 1])}

ToolCallIds == {None}

TextFragment(vendor_part_id, content) ==
    [kind |-> "text", vendor_part_id |-> vendor_part_id, content |-> content]

ToolCallFragment(vendor_part_id, tool_name, args, tool_call_id) ==
    [kind |-> "tool_call", vendor_part_id |-> vendor_part_id, tool_name |-> tool_name,
     args |-> args, tool_call_id |-> tool_call_id]

---------------------------------------------------------------------------
(* The state machine *)

NotYet == [cls |-> "NotYet"]

\* _utils.UNSET, what peek returns when there is nothing to peek at.
UNSET == [type |-> "Unset"]

Init ==
    /\ parts = << >>
    /\ vendor_id_to_part_index = [id \in {} |-> 0]
    /\ log = << >>
    /\ response = NotYet
    /\ delivered = 0
    /\ consumer = [i \in {} |-> NotYet]
    /\ phase = "new"
    /\ produced = << >>
    /\ response_stream = [buffer |-> UNSET, exhausted |-> FALSE]
    /\ delta_tool_calls = << >>
    /\ yielded = << >>
    /\ graph = NotYet
    /\ graph_run = [status |-> "new", start |-> NotYet, current_node |-> NotYet,
                    history |-> << >>, executed |-> << >>, returned |-> << >>,
                    result |-> NotYet]

\* One call of the manager: its state is replaced by what the call leaves and
\* the call is logged with its result.
Call(fragment, handled) ==
    /\ Len(log) < MaxFragments
    /\ parts' = handled.parts
    /\ vendor_id_to_part_index' = handled.index
    /\ log' = Append(log, [fragment |-> fragment, result |-> handled.result,
                           parts |-> handled.parts, index |-> handled.index])
    /\ UNCHANGED <<response, delivered, consumer>>
    /\ UNCHANGED graphVars

\* One call of the manager on its own, away from the event iterator.
Record(fragment, handled) ==
    /\ Call(fragment, handled)
    /\ UNCHANGED streamVars

\* A fragment handed to the entry point of its kind.
Handle(ps, index, fragment) ==
    IF fragment.kind = "text"
    THEN handle_text_delta(ps, index, fragment.vendor_part_id, fragment.content)
    ELSE handle_tool_call_delta(ps, index, fragment.vendor_part_id, fragment.tool_name,
                                fragment.args, fragment.tool_call_id)

\* The manager's text entry point, for an identifier among ids.
HandleTextFragment(ids) ==
    \E vendor_part_id \in ids, content \in TextContents :
        LET fragment == TextFragment(vendor_part_id, content)
        IN  Record(fragment, Handle(parts, vendor_id_to_part_index, fragment))

\* The manager's tool-call entry point, for an identifier among ids.
HandleToolCallFragment(ids) ==
    \E vendor_part_id \in ids, tool_name \in ToolNames, args \in ArgsDeltas,
       tool_call_id \in ToolCallIds :
        LET fragment == ToolCallFragment(vendor_part_id, tool_name, args, tool_call_id)
        IN  Record(fragment, Handle(parts, vendor_id_to_part_index, fragment))

\* FunctionStreamedResponse._get_event_iterator, a str item.
StreamTextItem ==
    \E item \in TextContents :
        Record(TextFragment(PyStr("content"), item),
               handle_text_delta(parts, vendor_id_to_part_index, PyStr("content"), item))

\* FunctionStreamedResponse._get_event_iterator, one entry of a DeltaToolCalls item.
StreamToolCallEntry ==
    \E dtc_index \in ToolCallIndexes, name \in ToolNames, json_args \in JsonArgs :
        Record(ToolCallFragment(dtc_index, name, json_args, None),
               handle_tool_call_delta(parts, vendor_id_to_part_index, dtc_index,
                                      name, json_args, None))

\* The slots after the first k fragments.
PartsAfter(k) == IF k = 0 THEN << >> ELSE log[k].parts

\* The identifier mapping after the first k fragments.
IndexAfter(k) == IF k = 0 THEN [id \in {} |-> 0] ELSE log[k].index

\* Mutant of Get: the manager keeps only the parts the snapshot returned.
Get_keeps_only_parts ==
    /\ response' = [cls |-> "ModelResponse", parts |-> get_parts(parts), at |-> Len(log)]
    /\ parts' = get_parts(parts)
    /\ UNCHANGED <<vendor_id_to_part_index, log, delivered, consumer>>
    /\ UNCHANGED streamVars
    /\ UNCHANGED graphVars

\* FunctionStreamedResponse.get
Get ==
    /\ response' = [cls |-> "ModelResponse", parts |-> get_parts(parts), at |-> Len(log)]
    /\ UNCHANGED <<parts, vendor_id_to_part_index, log, delivered, consumer>>
    /\ UNCHANGED streamVars
    /\ UNCHANGED graphVars

HasEvent(entry) == entry.result.ok /\ entry.result.value # None

\* The events the stream has yielded so far, in order.
Events == LET yielding == SelectSeq(log, HasEvent)
          IN  [i \in 1..Len(yielding) |-> yielding[i].result.value]

\* A consumer of the events takes the next one: a started part is stored at
\* the event's index, a delta is applied to the part held there.
Deliver ==
    /\ delivered < Len(Events)
    /\ delivered' = delivered + 1
    /\ LET event == Events[delivered + 1]
       IN  IF event.event_kind = "part_start"
           THEN consumer' = [i \in DOMAIN consumer \cup {event.index} |->
                                IF i = event.index THEN event.part ELSE consumer[i]]
           ELSE IF event.index \notin DOMAIN consumer
           THEN consumer' = consumer
           ELSE LET applied == IF event.delta.cls = "TextPartDelta"
                               THEN TextPartDelta_apply(event.delta, consumer[event.index])
                               ELSE ToolCallPartDelta_apply(event.delta, consumer[event.index])
                IN  consumer' = IF applied.ok
                                THEN [consumer EXCEPT ![event.index] = applied.value]
                                ELSE consumer
    /\ UNCHANGED <<parts, vendor_id_to_part_index, log, response>>
    /\ UNCHANGED streamVars
    /\ UNCHANGED graphVars

Next ==
    \/ HandleTextFragment(VendorIds)
    \/ HandleToolCallFragment(VendorIds)
    \/ StreamTextItem
    \/ StreamToolCallEntry

Spec == Init /\ [][Next]_vars

\* A stream over two identifiers whose snapshot is taken at any point.
NextSnapshot ==
    \/ HandleTextFragment(TwoIds)
    \/ HandleToolCallFragment(TwoIds)
    \/ Get

SpecSnapshot == Init /\ [][NextSnapshot]_vars

\* A stream over two identifiers whose events a consumer takes at its own pace.
NextConsumer ==
    \/ HandleTextFragment(TwoIds)
    \/ HandleToolCallFragment(TwoIds)
    \/ Deliver

SpecConsumer == Init /\ [][NextConsumer]_vars

---------------------------------------------------------------------------
(* Reading the log *)

Steps == 1..Len(log)

\* The identifier of fragment k, and whether the manager had seen it before.
IdOf(k) == log[k].fragment.vendor_part_id

Unseen(k) == IdOf(k) \notin DOMAIN IndexAfter(k - 1)

\* The slot fragment k targets, as it was before and as it is after the call.
SlotBefore(k) == SlotOf(PartsAfter(k - 1), IndexAfter(k - 1), IdOf(k))

SlotAfter(k) == SlotOf(log[k].parts, log[k].index, IdOf(k))

Accepted(k) == log[k].result.ok

IsPartStart(k) == HasEvent(log[k]) /\ log[k].result.value.event_kind = "part_start"

IsPartDelta(k) == HasEvent(log[k]) /\ log[k].result.value.event_kind = "part_delta"

NoEvent(k) == log[k].result = Return(None)

IsPending(slot) == slot.cls = "ToolCallPartDelta"

\* The first fragment that carries identifier id.
FirstSeen(id) == CHOOSE k \in Steps : IdOf(k) = id /\ \A j \in 1..(k - 1) : IdOf(j) # id

\* The contents of the text fragments for id among the first k fragments,
\* concatenated in arrival order.
RECURSIVE TextSent(_, _)
TextSent(id, k) ==
    IF k = 0 THEN ""
    ELSE TextSent(id, k - 1)
         \o (IF log[k].fragment.kind = "text" /\ IdOf(k) = id
             THEN log[k].fragment.content ELSE "")

---------------------------------------------------------------------------
(* Claims *)

\* C1: the text part at an identifier's position holds the concatenation, in
\* arrival order, of the contents of all text fragments sent for that
\* identifier, whatever fragments for other identifiers came in between.
C1_TextIsConcatenation ==
    \A id \in DOMAIN vendor_id_to_part_index :
        LET slot == SlotOf(parts, vendor_id_to_part_index, id)
        IN  slot.cls = "TextPart" => slot.content = TextSent(id, Len(log))

\* Two different contents for one identifier around a fragment for another.
C1_Witness ==
    /\ Len(log) = 3
    /\ log[1].fragment = TextFragment(PyStr("content"), "a")
    /\ IdOf(2) = PyInt(0)
    /\ log[3].fragment = TextFragment(PyStr("content"), "b")
    /\ SlotOf(parts, vendor_id_to_part_index, PyStr("content")) = TextPart("ab")

\* C2: distinct identifiers have distinct positions, every identifier that
\* appeared has one, and the positions increase strictly in the order in
\* which the identifiers first appeared.
C2_PositionsFollowFirstAppearance ==
    /\ DOMAIN vendor_id_to_part_index = {IdOf(k) : k \in Steps}
    /\ \A a, b \in DOMAIN vendor_id_to_part_index :
           FirstSeen(a) < FirstSeen(b)
               => vendor_id_to_part_index[a] < vendor_id_to_part_index[b]
    /\ \A a \in DOMAIN vendor_id_to_part_index :
           vendor_id_to_part_index[a] \in 0..(Len(parts) - 1)

\* Two identifiers whose fragments interleave, the second one a pending tool call.
C2_Witness ==
    /\ Len(log) = 3
    /\ IdOf(1) = IdOf(3)
    /\ IdOf(2) # IdOf(1)
    /\ IsPending(SlotAfter(2))
    /\ vendor_id_to_part_index[IdOf(1)] = 0
    /\ vendor_id_to_part_index[IdOf(2)] = 1

\* C3: once bound, an identifier keeps its position and no other identifier
\* gets it; every fragment changes no slot but the one at the position of its
\* identifier, and its event carries that position.
C3_BindingIsStable ==
    \A k \in Steps :
        /\ \A pos \in 1..Len(PartsAfter(k - 1)) :
               pos # log[k].index[IdOf(k)] + 1 => log[k].parts[pos] = PartsAfter(k - 1)[pos]
        /\ \A id \in DOMAIN IndexAfter(k - 1) :
               id \in DOMAIN log[k].index /\ log[k].index[id] = IndexAfter(k - 1)[id]
        /\ \A a, b \in DOMAIN log[k].index :
               log[k].index[a] = log[k].index[b] => a = b
        /\ HasEvent(log[k]) => log[k].result.value.index = log[k].index[IdOf(k)]

\* An identifier bound by the first fragment is used again after another one
\* was bound, and its event carries the first position.
C3_Witness ==
    /\ Len(log) = 3
    /\ IdOf(1) = IdOf(3)
    /\ IdOf(2) # IdOf(1)
    /\ IsPartDelta(3)
    /\ log[3].result.value.index = 0

\* C4 as stated: the first fragment for an unseen identifier, text or tool
\* call, always yields a "part started" event.
C4_FirstFragmentAlwaysStarts ==
    \A k \in Steps : Unseen(k) => IsPartStart(k)

\* Whether a fragment carries all a part needs: any text, or a tool call with
\* both a name and args (an empty name or empty args count).
CarriesWholePart(fragment) ==
    \/ fragment.kind = "text"
    \/ fragment.tool_name # None /\ fragment.args # None

\* C4, amended: the first fragment for an unseen identifier yields a "part
\* started" event carrying the new position and the stored part when it is a
\* text fragment or a tool-call fragment with both a name and args; a first
\* tool-call fragment that lacks the name or the args yields no event and
\* leaves a pending delta.
C4_FirstFragmentStartsWhenWhole ==
    \A k \in Steps :
        Unseen(k) =>
            IF CarriesWholePart(log[k].fragment)
            THEN /\ IsPartStart(k)
                 /\ log[k].result.value =
                        PartStartEvent(Len(PartsAfter(k - 1)), SlotAfter(k))
                 /\ ~IsPending(SlotAfter(k))
            ELSE NoEvent(k) /\ IsPending(SlotAfter(k))

\* A second identifier starts with a tool call whose name is empty and whose
\* args are present, after an identifier that started with a name only.
C4_Witness ==
    /\ Len(log) >= 2
    /\ log[1].fragment.kind = "tool_call"
    /\ log[1].fragment.args = None
    /\ NoEvent(1)
    /\ Unseen(2)
    /\ log[2].fragment.kind = "tool_call"
    /\ log[2].fragment.tool_name = PyStr("")
    /\ log[2].fragment.args = PyStr("x")
    /\ IsPartStart(2)

\* C5: no position gets two "part started" events, and an accepted fragment
\* for an identifier whose slot already holds a part yields "part updated".
C5_OneStartPerPosition ==
    /\ \A i, j \in Steps :
           i < j /\ IsPartStart(i) /\ IsPartStart(j)
               => log[i].result.value.index # log[j].result.value.index
    /\ \A k \in Steps :
           ~Unseen(k) /\ ~IsPending(SlotBefore(k)) /\ Accepted(k) => IsPartDelta(k)

\* A tool call materializes on its second fragment and is updated by a third.
C5_Witness ==
    /\ Len(log) = 3
    /\ IdOf(1) = IdOf(2) /\ IdOf(2) = IdOf(3)
    /\ NoEvent(1)
    /\ IsPartStart(2)
    /\ IsPartDelta(3)
    /\ log[3].fragment.kind = "tool_call"

\* Fragment k is a tool-call fragment carrying only a name / only args.
NameOnly(k) ==
    /\ log[k].fragment.kind = "tool_call"
    /\ log[k].fragment.tool_name # None
    /\ log[k].fragment.args = None
    /\ log[k].fragment.tool_call_id = None

ArgsOnly(k) ==
    /\ log[k].fragment.kind = "tool_call"
    /\ log[k].fragment.tool_name = None
    /\ log[k].fragment.args # None
    /\ log[k].fragment.tool_call_id = None

\* Fragments i < j are the first two fragments of their identifier.
FirstTwo(i, j) ==
    /\ i < j
    /\ IdOf(i) = IdOf(j)
    /\ Unseen(i)
    /\ \A m \in (i + 1)..(j - 1) : IdOf(m) # IdOf(i)

\* C6: a fresh identifier's name-only fragment yields no event, and the
\* args-only fragment that follows yields the one "part started" event of the
\* position, with the name of the first and the args of the second; no event
\* is returned for a slot that is pending.
C6_NameThenArgsStartsOnce ==
    /\ \A i, j \in Steps :
           FirstTwo(i, j) /\ NameOnly(i) /\ ArgsOnly(j) =>
               /\ NoEvent(i)
               /\ IsPartStart(j)
               /\ log[j].result.value.index = log[j].index[IdOf(j)]
               /\ log[j].result.value.part.tool_name = log[i].fragment.tool_name.v
               /\ log[j].result.value.part.args =
                      (IF isinstance(log[j].fragment.args, "str")
                       THEN ArgsJson(log[j].fragment.args.v)
                       ELSE ArgsDict(log[j].fragment.args.v))
               /\ log[j].result.value.part.tool_call_id = None
               /\ SlotAfter(j) = log[j].result.value.part
               /\ Cardinality({m \in 1..j : IsPartStart(m) /\ IdOf(m) = IdOf(j)}) = 1
    /\ \A k \in Steps :
           /\ IsPending(SlotAfter(k)) => ~HasEvent(log[k])
           /\ HasEvent(log[k]) =>
                  ~IsPending(SlotAt(log[k].parts, log[k].result.value.index))

\* A name, a fragment for another identifier, then structured args.
C6_Witness ==
    /\ Len(log) = 3
    /\ FirstTwo(1, 3)
    /\ NameOnly(1) /\ log[1].fragment.tool_name = PyStr("n")
    /\ ArgsOnly(3) /\ log[3].fragment.args = PyDict([k \in {"k"} |-> 1])
    /\ IsPartStart(3)

\* The errors the specification calls ArgsRepresentationConflict.
ArgsRepresentationConflict ==
    {Raise("ValueError", "Cannot apply deltas to non-JSON tool arguments"),
     Raise("ValueError", "Cannot apply deltas to non-dict tool arguments"),
     Raise("NotImplementedError", "Cannot apply a JSON args delta to a dict args delta"),
     Raise("NotImplementedError", "Cannot apply a dict args delta to a JSON args delta")}

\* Fragment k carries string args for a tool call that holds a mapping.
StringOntoMapping(k) ==
    /\ log[k].fragment.kind = "tool_call"
    /\ isinstance(log[k].fragment.args, "str")
    /\ ~Unseen(k)
    /\ SlotBefore(k).cls = "ToolCallPart"
    /\ SlotBefore(k).args.cls = "ArgsDict"

\* C7: string args for a tool call holding a mapping are refused with
\* ArgsRepresentationConflict, slots and identifier mapping stay as they
\* were, and the next fragment is handled as from the state before the
\* refused one.
C7_StringArgsOntoMappingRefused ==
    \A k \in Steps :
        StringOntoMapping(k) =>
            /\ log[k].result \in ArgsRepresentationConflict
            /\ log[k].parts = PartsAfter(k - 1)
            /\ log[k].index = IndexAfter(k - 1)
            /\ k < Len(log) =>
                   Handled(log[k + 1].parts, log[k + 1].index, log[k + 1].result)
                       = Handle(PartsAfter(k - 1), IndexAfter(k - 1), log[k + 1].fragment)

\* A mapping tool call, a refused fragment with a name and string args, then
\* an accepted mapping fragment for the same identifier.
C7_Witness ==
    /\ Len(log) = 3
    /\ IdOf(1) = IdOf(2) /\ IdOf(2) = IdOf(3)
    /\ StringOntoMapping(2)
    /\ log[2].fragment.tool_name = PyStr("n")
    /\ ~Accepted(2)
    /\ log[3].fragment.kind = "tool_call"
    /\ isinstance(log[3].fragment.args, "dict")
    /\ IsPartDelta(3)

\* C10: a position that holds a tool call keeps the args representation it
\* had when it first held one.
C10_ArgsKindIsFixed ==
    \A i, j \in Steps :
        i < j =>
            \A pos \in 1..Len(log[i].parts) :
                log[i].parts[pos].cls = "ToolCallPart" =>
                    /\ log[j].parts[pos].cls = "ToolCallPart"
                    /\ log[j].parts[pos].args.cls = log[i].parts[pos].args.cls

\* A tool call with string args refuses a mapping and then grows by a string.
C10_Witness ==
    /\ Len(log) = 3
    /\ IdOf(1) = IdOf(2) /\ IdOf(2) = IdOf(3)
    /\ IsPartStart(1)
    /\ SlotAfter(1).cls = "ToolCallPart" /\ SlotAfter(1).args = ArgsJson("x")
    /\ log[2].fragment.kind = "tool_call"
    /\ isinstance(log[2].fragment.args, "dict") /\ ~Accepted(2)
    /\ IsPartDelta(3)
    /\ SlotAfter(3).args = ArgsJson("xx")

\* The positions (from 1) of the slots that hold a part.
MaterializedPositions(ps) == {i \in 1..Len(ps) : ~IsPending(ps[i])}

\* C8: a snapshot taken after k fragments is the sequence of the slots that
\* then held a part, in ascending position order, without the pending slots.
C8_SnapshotIsMaterializedInOrder ==
    response.cls = "ModelResponse" =>
        LET ps == PartsAfter(response.at)
            held == MaterializedPositions(ps)
        IN  /\ Len(response.parts) = Cardinality(held)
            /\ \A i \in held :
                   response.parts[Cardinality({j \in held : j <= i})] = ps[i]

\* A snapshot of the current slots, the first pending and the second a part.
C8_Witness ==
    /\ response.cls = "ModelResponse"
    /\ response.at = Len(log)
    /\ Len(parts) = 2
    /\ IsPending(parts[1])
    /\ response.parts = <<parts[2]>>

\* The number of events the first k fragments yielded.
NumEvents(k) == Cardinality({m \in 1..k : HasEvent(log[m])})

\* The parts held by the slots, by position (from 0).
Materialized(ps) ==
    [i \in {p - 1 : p \in MaterializedPositions(ps)} |-> ps[i + 1]]

\* C9: a consumer that has taken exactly the events of the first k fragments
\* holds the parts the manager held after those k fragments, at the same
\* positions, however many fragments the manager has handled since.
C9_ConsumerInSync ==
    \A k \in 0..Len(log) :
        delivered = NumEvents(k) => consumer = Materialized(PartsAfter(k))

\* The consumer has applied a tool-call update and is one event behind.
C9_Witness ==
    /\ Len(log) = 3
    /\ Len(Events) = 3
    /\ delivered = 2
    /\ Events[2].event_kind = "part_delta"
    /\ Events[2].delta.cls = "ToolCallPartDelta"
    /\ consumer = Materialized(PartsAfter(2))
    /\ consumer # Materialized(parts)

---------------------------------------------------------------------------
(* One tool call followed closely: call ids, names and arguments *)

\* A stream that speaks of one identifier.
OneId == {PyInt(0)}

\* The tool_call_id of a fragment: absent, empty, or one of two ids.
CallIds == {None, PyStr(""), PyStr("c1"), PyStr("c2")}

CallIdNames == {None, PyStr("n")}

CallIdArgs == {None, PyStr("x"), PyDict([k \in {"k"} |-> 1])}

\* The manager's tool-call entry point, for an identifier among ids and
\* fields among the given values.
HandleToolCallFragmentOf(ids, tool_names, args_deltas, tool_call_ids) ==
    \E vendor_part_id \in ids, tool_name \in tool_names, args \in args_deltas,
       tool_call_id \in tool_call_ids :
        LET fragment == ToolCallFragment(vendor_part_id, tool_name, args, tool_call_id)
        IN  Record(fragment, Handle(parts, vendor_id_to_part_index, fragment))

\* A stream for one identifier whose tool-call fragments carry call ids.
NextCallIds ==
    \/ HandleTextFragment(OneId)
    \/ HandleToolCallFragmentOf(OneId, CallIdNames, CallIdArgs, CallIds)

SpecCallIds == Init /\ [][NextCallIds]_vars

\* A slot that holds a tool call, pending or materialized.
IsToolCall(slot) == slot.cls \in {"ToolCallPart", "ToolCallPartDelta"}

\* The errors the specification calls CallIdConflict.
CallIdConflict ==
    {Raise("ValueError",
           "Cannot apply a new tool_call_id to a ToolCallPart that already has one"),
     Raise("ValueError",
           "Cannot apply a new tool_call_id to a ToolCallPartDelta that already has one")}

\* Fragment k is a tool-call fragment for a slot that holds a tool call with
\* a non-empty call id.
OntoCallId(k) ==
    /\ log[k].fragment.kind = "tool_call"
    /\ ~Unseen(k)
    /\ IsToolCall(SlotBefore(k))
    /\ bool(SlotBefore(k).tool_call_id)

\* C11: a non-empty call id of a slot, pending or materialized, is the call
\* id of that slot in every later state; a fragment with another non-empty
\* call id is refused and leaves the slots as they were, and a fragment
\* without call id (None or '') is never refused for its call id.
C11_CallIdIsStable ==
    /\ \A i, j \in Steps :
           i < j =>
               \A pos \in 1..Len(log[i].parts) :
                   (IsToolCall(log[i].parts[pos]) /\ bool(log[i].parts[pos].tool_call_id)) =>
                       /\ IsToolCall(log[j].parts[pos])
                       /\ log[j].parts[pos].tool_call_id = log[i].parts[pos].tool_call_id
    /\ \A k \in Steps :
           OntoCallId(k) =>
               IF /\ bool(log[k].fragment.tool_call_id)
                  /\ log[k].fragment.tool_call_id # SlotBefore(k).tool_call_id
               THEN /\ ~Accepted(k)
                    /\ log[k].parts = PartsAfter(k - 1)
               ELSE /\ log[k].result \notin CallIdConflict
                    /\ SlotAfter(k).tool_call_id = SlotBefore(k).tool_call_id

\* A pending delta takes call id c1, refuses c2, and is materialized with c1
\* by a fragment that carries no call id.
C11_Witness ==
    /\ Len(log) = 3
    /\ log[1].fragment.kind = "tool_call"
    /\ log[1].fragment.tool_call_id = PyStr("c1")
    /\ IsPending(log[1].parts[1])
    /\ log[2].fragment.kind = "tool_call"
    /\ log[2].fragment.tool_call_id = PyStr("c2")
    /\ log[2].result \in CallIdConflict
    /\ log[3].fragment.kind = "tool_call"
    /\ log[3].fragment.tool_call_id = None
    /\ IsPartStart(3)
    /\ parts[1].tool_call_id = PyStr("c1")

\* Fragment k is a tool-call fragment for a slot that holds a materialized
\* tool call.
OntoToolCallPart(k) ==
    /\ log[k].fragment.kind = "tool_call"
    /\ ~Unseen(k)
    /\ SlotBefore(k).cls = "ToolCallPart"

\* C12: applying a tool-call fragment to a materialized tool call fails with
\* CallIdConflict only when the fragment carries a call id, the part has a
\* non-empty call id and the two differ; a part whose call id is None or ''
\* takes any call id, and the call id the part has is taken again.
C12_CallIdConflictOnlyOnNonEmpty ==
    \A k \in Steps :
        OntoToolCallPart(k) =>
            /\ log[k].result \in CallIdConflict =>
                   /\ bool(log[k].fragment.tool_call_id)
                   /\ bool(SlotBefore(k).tool_call_id)
                   /\ log[k].fragment.tool_call_id # SlotBefore(k).tool_call_id
            /\ log[k].fragment.tool_call_id = SlotBefore(k).tool_call_id =>
                   log[k].result \notin CallIdConflict

---------------------------------------------------------------------------
(* Two tool calls whose names grow *)

\* The tool_name of a fragment: absent, empty, or one of two pieces.
NamePieces == {None, PyStr(""), PyStr("n"), PyStr("m")}

JsonPieces == {None, PyStr(""), PyStr("x")}

NextNames == HandleToolCallFragmentOf(ToolCallIndexes, NamePieces, JsonPieces, ToolCallIds)

SpecNames == Init /\ [][NextNames]_vars

\* The string a field contributes: nothing when it is None.
StrOf(x) == IF isinstance(x, "str") THEN x.v ELSE ""

\* The name a tool-call slot has.
NameOf(slot) == IF slot.cls = "ToolCallPart" THEN slot.tool_name
                ELSE StrOf(slot.tool_name_delta)

\* Fragment k is an accepted tool-call fragment for identifier id.
AcceptedFor(id, k) ==
    log[k].fragment.kind = "tool_call" /\ IdOf(k) = id /\ Accepted(k)

\* The names of the accepted tool-call fragments for id among the first k
\* fragments, concatenated in arrival order.
RECURSIVE NameSent(_, _)
NameSent(id, k) ==
    IF k = 0 THEN ""
    ELSE NameSent(id, k - 1)
         \o (IF AcceptedFor(id, k) THEN StrOf(log[k].fragment.tool_name) ELSE "")

\* C13: the name of a tool call, pending or materialized, is the
\* concatenation in arrival order of the names of the fragments accepted for
\* its identifier; every accepted fragment appends its name to the name the
\* slot had, so the old name is a prefix of the new one.
C13_NameIsConcatenation ==
    \A k \in Steps :
        /\ \A id \in DOMAIN log[k].index :
               LET slot == SlotOf(log[k].parts, log[k].index, id)
               IN  IsToolCall(slot) => NameOf(slot) = NameSent(id, k)
        /\ (AcceptedFor(IdOf(k), k) /\ ~Unseen(k) /\ IsToolCall(SlotBefore(k))) =>
               NameOf(SlotAfter(k))
                   = NameOf(SlotBefore(k)) \o StrOf(log[k].fragment.tool_name)

\* A name that starts pending with 'n', is materialized by 'm' with args and
\* grows by 'n' as a part.
C13_Witness ==
    /\ Len(log) = 3
    /\ IdOf(1) = IdOf(2) /\ IdOf(2) = IdOf(3)
    /\ log[1].fragment.tool_name = PyStr("n") /\ log[1].fragment.args = None
    /\ IsPending(log[1].parts[1])
    /\ log[2].fragment.tool_name = PyStr("m")
    /\ IsPartStart(2)
    /\ log[3].fragment.tool_name = PyStr("n")
    /\ IsPartDelta(3)
    /\ parts[1].tool_name = "nmn"

---------------------------------------------------------------------------
(* Two tool calls whose arguments grow *)

\* The args of a fragment: absent, a piece of JSON text, or a mapping.
ArgsPieces ==
    {None, PyStr(""), PyStr("x"), PyStr("y"), PyDict(EmptyDict),
     PyDict([k \in {"k"} |-> 1]), PyDict([k \in {"k"} |-> 2]),
     PyDict([k \in {"j"} |-> 1])}

NextArgs == HandleToolCallFragmentOf(ToolCallIndexes, CallIdNames, ArgsPieces, ToolCallIds)

SpecArgs == Init /\ [][NextArgs]_vars

\* The args a tool-call slot has, as a fragment would carry them.
ArgsOf(slot) ==
    IF slot.cls = "ToolCallPartDelta" THEN slot.args_delta
    ELSE IF slot.args.cls = "ArgsJson" THEN PyStr(slot.args.args_json)
    ELSE PyDict(slot.args.args_dict)

\* Args so far joined with one more args fragment: strings are
\* concatenated, the keys of a mapping replace those held.
ArgsJoin(sofar, args) ==
    IF isinstance(args, "str") THEN PyStr(StrOf(sofar) \o args.v)
    ELSE IF isinstance(args, "dict")
    THEN PyDict(DictMerge(IF isinstance(sofar, "dict") THEN sofar.v ELSE EmptyDict,
                          args.v))
    ELSE sofar

\* The args of the accepted tool-call fragments for id among the first k
\* fragments, joined in arrival order.
RECURSIVE ArgsSent(_, _)
ArgsSent(id, k) ==
    IF k = 0 THEN None
    ELSE IF AcceptedFor(id, k) THEN ArgsJoin(ArgsSent(id, k - 1), log[k].fragment.args)
    ELSE ArgsSent(id, k - 1)

\* C14: the args of a tool call, pending or materialized, are the args of
\* the fragments accepted for its identifier joined in arrival order
\* (strings concatenated, mappings merged with later keys winning),
\* whichever fragment materialized the part.
C14_ArgsAreJoinedFragments ==
    \A k \in Steps :
        \A id \in DOMAIN log[k].index :
            LET slot == SlotOf(log[k].parts, log[k].index, id)
            IN  IsToolCall(slot) => ArgsOf(slot) = ArgsSent(id, k)

\* Two mappings with the same key are folded while pending, and the part is
\* materialized by a third fragment that brings the name and another key.
C14_Witness ==
    /\ Len(log) = 3
    /\ IdOf(1) = IdOf(2) /\ IdOf(2) = IdOf(3)
    /\ log[1].fragment.args = PyDict([k \in {"k"} |-> 1])
    /\ log[2].fragment.args = PyDict([k \in {"k"} |-> 2])
    /\ IsPending(log[2].parts[1])
    /\ log[3].fragment.args = PyDict([k \in {"j"} |-> 1])
    /\ IsPartStart(3)
    /\ parts[1].args = ArgsDict([k \in {"j", "k"} |-> IF k = "k" THEN 2 ELSE 1])

\* Among the first k fragments, one accepted for id carries a non-empty
\* name, and one carries non-empty args.
NonEmptyNameBy(id, k) ==
    \E j \in 1..k : AcceptedFor(id, j) /\ bool(log[j].fragment.tool_name)

NonEmptyArgsBy(id, k) ==
    \E j \in 1..k : AcceptedFor(id, j) /\ bool(log[j].fragment.args)

\* The slot of id after the first k fragments holds a materialized part.
MaterializedBy(id, k) ==
    SlotOf(log[k].parts, log[k].index, id).cls = "ToolCallPart"

\* C15 as stated: the slot of a tool call is materialized exactly from the
\* fragment on with which the fragments received carry both a non-empty name
\* and non-empty args.
C15_PendingUntilNonEmpty ==
    \A k \in Steps :
        \A id \in DOMAIN log[k].index :
            IsToolCall(SlotOf(log[k].parts, log[k].index, id)) =>
                (MaterializedBy(id, k) <=> (NonEmptyNameBy(id, k) /\ NonEmptyArgsBy(id, k)))

\* The name is present once the first fragment for id carries a name, empty
\* or not, or a later accepted one carries a non-empty name; the args are
\* present once an accepted fragment carries args, empty or not.
NamePresentBy(id, k) ==
    \/ /\ FirstSeen(id) <= k
       /\ log[FirstSeen(id)].fragment.kind = "tool_call"
       /\ log[FirstSeen(id)].fragment.tool_name # None
    \/ NonEmptyNameBy(id, k)

ArgsPresentBy(id, k) ==
    \E j \in 1..k : AcceptedFor(id, j) /\ log[j].fragment.args # None

\* C15: the slot of a tool call is materialized exactly from the fragment on
\* with which both the name and the args are present, empty values counting
\* as present; this is at the latest the fragment with which a non-empty
\* name and non-empty args have both been received.
C15_PendingUntilPresent ==
    \A k \in Steps :
        \A id \in DOMAIN log[k].index :
            IsToolCall(SlotOf(log[k].parts, log[k].index, id)) =>
                /\ MaterializedBy(id, k) <=> (NamePresentBy(id, k) /\ ArgsPresentBy(id, k))
                /\ (NonEmptyNameBy(id, k) /\ NonEmptyArgsBy(id, k)) => MaterializedBy(id, k)

\* A first fragment with an empty name leaves the slot pending, empty args
\* materialize it, and a later non-empty name and args update the part.
C15_Witness ==
    /\ Len(log) = 3
    /\ IdOf(1) = IdOf(2) /\ IdOf(2) = IdOf(3)
    /\ log[1].fragment.tool_name = PyStr("") /\ log[1].fragment.args = None
    /\ IsPending(log[1].parts[1])
    /\ log[2].fragment.tool_name = None /\ log[2].fragment.args = PyStr("")
    /\ IsPartStart(2)
    /\ ~NonEmptyNameBy(IdOf(2), 2) /\ ~NonEmptyArgsBy(IdOf(2), 2)
    /\ log[3].fragment.tool_name = PyStr("n") /\ log[3].fragment.args = PyStr("x")
    /\ IsPartDelta(3)

\* The errors the specification calls TypeMismatch.
TextOntoOther == Raise("ValueError", "Cannot apply TextPartDeltas to non-TextParts")

ToolCallOntoOther ==
    Raise("ValueError",
          "Can only apply ToolCallPartDeltas to ToolCallParts or ToolCallPartDeltas")

\* Fragment k is of one kind and its identifier is mapped to a slot of the
\* other kind.
TextOntoToolCall(k) ==
    log[k].fragment.kind = "text" /\ ~Unseen(k) /\ IsToolCall(SlotBefore(k))

ToolCallOntoText(k) ==
    log[k].fragment.kind = "tool_call" /\ ~Unseen(k) /\ SlotBefore(k).cls = "TextPart"

\* C16: a text fragment for a slot that holds a tool call, pending or
\* materialized, and a tool-call fragment for a slot that holds a text part
\* are refused with TypeMismatch: no event is returned and the slots and
\* the identifier mapping stay as they were.  No other fragment is refused
\* that way.
C16_OtherKindIsRefused ==
    \A k \in Steps :
        /\ TextOntoToolCall(k) => log[k].result = TextOntoOther
        /\ ToolCallOntoText(k) => log[k].result = ToolCallOntoOther
        /\ log[k].result \in {TextOntoOther, ToolCallOntoOther} =>
               /\ TextOntoToolCall(k) \/ ToolCallOntoText(k)
               /\ log[k].parts = PartsAfter(k - 1)
               /\ log[k].index = IndexAfter(k - 1)

\* A pending tool call refuses a text fragment and is then materialized with
\* the name it had.
C16_Witness ==
    /\ Len(log) = 3
    /\ NameOnly(1)
    /\ IsPending(log[1].parts[1])
    /\ TextOntoToolCall(2)
    /\ ~Accepted(2)
    /\ log[2].parts = log[1].parts
    /\ ArgsOnly(3)
    /\ IsPartStart(3)
    /\ parts[1].tool_name = "n"

\* Fragment k is a tool-call fragment for a slot that holds a tool call.
OntoToolCall(k) ==
    log[k].fragment.kind = "tool_call" /\ ~Unseen(k) /\ IsToolCall(SlotBefore(k))

\* The args of fragment k are of one kind and the slot holds args of the
\* other kind.
ArgsKindsDisagree(k) ==
    LET held == ArgsOf(SlotBefore(k))
        sent == log[k].fragment.args
    IN  \/ isinstance(sent, "str") /\ isinstance(held, "dict")
        \/ isinstance(sent, "dict") /\ isinstance(held, "str")

\* Fragment k carries a call id and the slot has another one.
CallIdsDisagree(k) ==
    /\ bool(log[k].fragment.tool_call_id)
    /\ SlotBefore(k).tool_call_id # None
    /\ SlotBefore(k).tool_call_id # log[k].fragment.tool_call_id

\* C17: a fragment for a tool call, pending or materialized alike, is
\* refused with ArgsRepresentationConflict exactly when its args are of the
\* other kind than the args held (held args of None take either kind), and
\* otherwise with CallIdConflict exactly when it carries a call id and the
\* slot has another one; a refused fragment leaves the pending delta, the
\* other slots and the identifier mapping as they were.
C17_FoldFailsAsApply ==
    \A k \in Steps :
        OntoToolCall(k) =>
            /\ log[k].result \in ArgsRepresentationConflict <=> ArgsKindsDisagree(k)
            /\ log[k].result \in CallIdConflict
                   <=> (~ArgsKindsDisagree(k) /\ CallIdsDisagree(k))
            /\ Accepted(k) <=> (~ArgsKindsDisagree(k) /\ ~CallIdsDisagree(k))
            /\ ~Accepted(k) =>
                   /\ log[k].parts = PartsAfter(k - 1)
                   /\ log[k].index = IndexAfter(k - 1)

\* A pending delta with string args and call id c1 refuses a mapping and
\* then refuses call id c2, and is as the first fragment left it.
C17_Witness ==
    /\ Len(log) = 3
    /\ log[1].fragment.kind = "tool_call"
    /\ log[1].fragment.args = PyStr("x")
    /\ log[1].fragment.tool_call_id = PyStr("c1")
    /\ IsPending(log[1].parts[1])
    /\ OntoToolCall(2)
    /\ isinstance(log[2].fragment.args, "dict")
    /\ log[2].result \in ArgsRepresentationConflict
    /\ OntoToolCall(3)
    /\ log[3].fragment.args = None
    /\ log[3].fragment.tool_call_id = PyStr("c2")
    /\ log[3].result \in CallIdConflict
    /\ parts = log[1].parts

\* What the slot of fragment k held before it, an unseen identifier counting
\* as a pending delta without fields.
PendingBefore(k) ==
    IF Unseen(k) THEN ToolCallPartDelta(None, None, None) ELSE SlotBefore(k)

\* The pending delta fragment k leaves includes the fields of the fragment:
\* its name at the end of the name, its args joined to the args, its call id
\* if it carries one.
PendingIncludes(k) ==
    LET before == PendingBefore(k)
        after == SlotAfter(k)
        fragment == log[k].fragment
    IN  /\ StrOf(after.tool_name_delta)
               = StrOf(before.tool_name_delta) \o StrOf(fragment.tool_name)
        /\ after.args_delta = ArgsJoin(before.args_delta, fragment.args)
        /\ bool(fragment.tool_call_id) => after.tool_call_id = fragment.tool_call_id

\* C18: an accepted fragment returns an event exactly when its slot holds a
\* materialized part afterwards; when it returns none, the slot holds a
\* pending delta that includes the fragment's name, args and call id.
C18_EventOrPending ==
    \A k \in Steps :
        Accepted(k) =>
            /\ HasEvent(log[k]) <=> ~IsPending(SlotAfter(k))
            /\ HasEvent(log[k]) \/ NoEvent(k)
            /\ NoEvent(k) =>
                   /\ log[k].fragment.kind = "tool_call"
                   /\ IsPending(SlotAfter(k))
                   /\ PendingIncludes(k)

\* A name, then a call id, both kept pending without event, then the args
\* that start the part with all three.
C18_Witness ==
    /\ Len(log) = 3
    /\ NameOnly(1) /\ NoEvent(1)
    /\ log[2].fragment.kind = "tool_call"
    /\ log[2].fragment.tool_name = None /\ log[2].fragment.args = None
    /\ log[2].fragment.tool_call_id = PyStr("c1")
    /\ NoEvent(2)
    /\ log[2].parts[1] = ToolCallPartDelta(PyStr("n"), None, PyStr("c1"))
    /\ ArgsOnly(3)
    /\ IsPartStart(3)
    /\ parts[1] = ToolCallPart("n", ArgsJson("x"), PyStr("c1"))

---------------------------------------------------------------------------
(* models/function.py: request_stream and the event iterator *)

\* DeltaToolCall(name, json_args)
DeltaToolCall(name, json_args) == [name |-> name, json_args |-> json_args]

\* A DeltaToolCalls item, dict[int, DeltaToolCall]: its entries in the
\* order of the dict, each key once.
DeltaToolCalls(entries) == [type |-> "dict", entries |-> entries]

DeltaToolCallValues == {DeltaToolCall(name, json_args) : name \in ToolNames,
                                                          json_args \in JsonArgs}

\* The number of entries of the largest DeltaToolCalls item.
MaxEntries == 2

\* The items a stream function yields: str or DeltaToolCalls.
StreamItems ==
    {PyStr(content) : content \in TextContents}
    \cup {DeltaToolCalls(entries) :
            entries \in {s \in UNION {[1..n -> [key : {0, 1}, value : DeltaToolCallValues]] :
                                          n \in 0..MaxEntries} :
                            \A i, j \in DOMAIN s : i # j => s[i].key # s[j].key}}

\* What asking the stream function for its next item gives: an item, or
\* the end of the stream.
StopAsyncIteration == [type |-> "StopAsyncIteration"]

\* The number of calls of the manager an item leads to.
CallsOf(item) == IF isinstance(item, "str") THEN 1 ELSE Len(item.entries)

RECURSIVE CallsOfAll(_)
CallsOfAll(items) ==
    IF items = << >> THEN 0 ELSE CallsOf(Head(items)) + CallsOfAll(Tail(items))

\* The stream function can yield this item within the bounds of one stream.
CanYield(item) ==
    /\ Len(produced) < MaxFragments
    /\ CallsOfAll(produced) + CallsOf(item) <= MaxFragments

\* PeekableAsyncStream.peek: the buffered item if there is one, else the next
\* item of the source, which is kept in the buffer; UNSET at the end.
peek(stream, from_source) ==
    IF stream.exhausted
    THEN [value |-> UNSET, stream |-> stream, pulled |-> FALSE]
    ELSE IF stream.buffer # UNSET
    THEN [value |-> stream.buffer, stream |-> stream, pulled |-> FALSE]
    ELSE IF from_source = StopAsyncIteration
    THEN [value |-> UNSET, stream |-> [stream EXCEPT !.exhausted = TRUE], pulled |-> TRUE]
    ELSE [value |-> from_source, stream |-> [stream EXCEPT !.buffer = from_source],
          pulled |-> TRUE]

\* PeekableAsyncStream.__anext__: the buffered item if there is one, which
\* leaves the buffer, else the next item of the source.
anext(stream, from_source) ==
    IF stream.exhausted
    THEN [value |-> StopAsyncIteration, stream |-> stream, pulled |-> FALSE]
    ELSE IF stream.buffer # UNSET
    THEN [value |-> stream.buffer, stream |-> [stream EXCEPT !.buffer = UNSET],
          pulled |-> FALSE]
    ELSE IF from_source = StopAsyncIteration
    THEN [value |-> StopAsyncIteration, stream |-> [stream EXCEPT !.exhausted = TRUE],
          pulled |-> TRUE]
    ELSE [value |-> from_source, stream |-> stream, pulled |-> TRUE]

\* The items the stream function has yielded once the source was asked.
Pulled(taken, from_source) ==
    IF taken.pulled /\ from_source # StopAsyncIteration
    THEN Append(produced, from_source) ELSE produced

\* Mutant of request_stream: the response is handed over whatever the peek
\* returned.
request_stream_skips_check(first) == Return("FunctionStreamedResponse")

\* FunctionModel.request_stream, after the peek.
request_stream(first) ==
    IF isinstance(first, "Unset")
    THEN Raise("ValueError", "Stream function must return at least one item")
    ELSE Return("FunctionStreamedResponse")

\* Mutant of yield_event: only the events that start a part are yielded.
yield_event_only_starts(events, maybe_event) ==
    IF maybe_event # None /\ maybe_event.event_kind = "part_start"
    THEN Append(events, maybe_event) ELSE events

\* `if maybe_event is not None: yield maybe_event`
yield_event(events, maybe_event) ==
    IF maybe_event # None THEN Append(events, maybe_event) ELSE events

\* The iterator after one call of the manager: the event is yielded, and an
\* error of the manager ends the iterator.
AfterCall(handled) ==
    IF handled.result.ok
    THEN /\ yielded' = yield_event(yielded, handled.result.value)
         /\ phase' = phase
    ELSE /\ yielded' = yielded
         /\ phase' = "failed"

\* request_stream: peek at the first item, raise if there is none, else hand
\* a FunctionStreamedResponse to the caller.
RequestStream ==
    /\ phase = "new"
    /\ \E from_source \in StreamItems \cup {StopAsyncIteration} :
        /\ from_source \in StreamItems => CanYield(from_source)
        /\ LET first == peek(response_stream, from_source)
           IN  /\ response_stream' = first.stream
               /\ produced' = Pulled(first, from_source)
               /\ phase' = IF request_stream(first.value).ok THEN "streaming" ELSE "raised"
    /\ UNCHANGED <<parts, vendor_id_to_part_index, log, response, delivered, consumer,
                   delta_tool_calls, yielded>>
    /\ UNCHANGED graphVars

\* _get_event_iterator, `async for item in self._iter`: the next item is
\* taken; a str is handled as text for 'content', the entries of a
\* DeltaToolCalls are set out to be handled one by one.
NextItem ==
    /\ phase = "streaming"
    /\ delta_tool_calls = << >>
    /\ \E from_source \in StreamItems \cup {StopAsyncIteration} :
        /\ from_source \in StreamItems => CanYield(from_source)
        /\ LET taken == anext(response_stream, from_source)
               item == taken.value
           IN  /\ response_stream' = taken.stream
               /\ produced' = Pulled(taken, from_source)
               /\ IF item = StopAsyncIteration
                  THEN /\ phase' = "done"
                       /\ UNCHANGED <<parts, vendor_id_to_part_index, log, response,
                                      delivered, consumer, delta_tool_calls, yielded>>
                       /\ UNCHANGED graphVars
                  ELSE IF isinstance(item, "str")
                  THEN LET handled == handle_text_delta(parts, vendor_id_to_part_index,
                                                        PyStr("content"), item.v)
                       IN  /\ Call(TextFragment(PyStr("content"), item.v), handled)
                           /\ AfterCall(handled)
                           /\ UNCHANGED delta_tool_calls
                  ELSE /\ delta_tool_calls' = item.entries
                       /\ UNCHANGED <<parts, vendor_id_to_part_index, log, response,
                                      delivered, consumer, phase, yielded>>
                       /\ UNCHANGED graphVars

\* _get_event_iterator, `for dtc_index, delta_tool_call in
\* delta_tool_calls.items()`: the next entry is handled as a tool-call
\* fragment for its key.
NextEntry ==
    /\ phase = "streaming"
    /\ delta_tool_calls # << >>
    /\ LET dtc_index == PyInt(Head(delta_tool_calls).key)
           delta_tool_call == Head(delta_tool_calls).value
           handled == handle_tool_call_delta(parts, vendor_id_to_part_index, dtc_index,
                                             delta_tool_call.name,
                                             delta_tool_call.json_args, None)
       IN  /\ Call(ToolCallFragment(dtc_index, delta_tool_call.name,
                                    delta_tool_call.json_args, None), handled)
           /\ AfterCall(handled)
           /\ delta_tool_calls' = IF handled.result.ok THEN Tail(delta_tool_calls) ELSE << >>
    /\ UNCHANGED <<produced, response_stream>>

NextStream ==
    \/ RequestStream
    \/ NextItem
    \/ NextEntry

SpecStream == Init /\ [][NextStream]_vars

\* The fragments an item is to be handled as: a str as text for 'content',
\* each entry of a DeltaToolCalls as a tool-call fragment for its key, in the
\* order of the dict.
FragmentsOfEntries(entries) ==
    [i \in 1..Len(entries) |->
        ToolCallFragment(PyInt(entries[i].key), entries[i].value.name,
                         entries[i].value.json_args, None)]

FragmentsOf(item) ==
    IF isinstance(item, "str") THEN <<TextFragment(PyStr("content"), item.v)>>
    ELSE FragmentsOfEntries(item.entries)

RECURSIVE FragmentsOfAll(_)
FragmentsOfAll(items) ==
    IF items = << >> THEN << >>
    ELSE FragmentsOf(Head(items)) \o FragmentsOfAll(Tail(items))

\* The fragments the manager was called with, in the order of the calls.
LogFragments == [k \in Steps |-> log[k].fragment]

\* The items the iterator has taken: all the stream function yielded but the
\* one that is peeked at and not yet taken.
Taken ==
    IF response_stream.buffer # UNSET THEN SubSeq(produced, 1, Len(produced) - 1)
    ELSE produced

\* C19: the streamed response has yielded exactly the events the manager
\* returned, in the order of the calls; the manager was called with the
\* fragments of the items taken, item by item and entry by entry in the
\* order of each item, a str as text for the one identifier 'content' and an
\* entry as a tool-call fragment for its key; all text lands in one part.
C19_StreamYieldsManagerEvents ==
    /\ yielded = Events
    /\ LogFragments \o FragmentsOfEntries(delta_tool_calls) = FragmentsOfAll(Taken)
    /\ \A i, j \in Steps :
           (log[i].fragment.kind = "text" /\ log[j].fragment.kind = "text") =>
               /\ HasEvent(log[i]) /\ HasEvent(log[j])
               /\ log[i].result.value.index = log[j].result.value.index

\* A text item, then an item whose entries are for keys 1 and 0 in that
\* order: the entry for 1 starts a part, the entry for 0 stays pending.
C19_Witness ==
    /\ Len(produced) = 2
    /\ isinstance(produced[1], "str")
    /\ isinstance(produced[2], "dict")
    /\ Len(produced[2].entries) = 2
    /\ produced[2].entries[1].key = 1
    /\ Len(log) = 3
    /\ IdOf(2) = PyInt(1) /\ IsPartStart(2)
    /\ IdOf(3) = PyInt(0) /\ NoEvent(3)
    /\ Len(yielded) = 2
    /\ yielded[2] = log[2].result.value

---------------------------------------------------------------------------
(* Refused fragments, slots over time, snapshots between fragments *)

\* C21: a fragment that is refused is applied not at all: the slots, their
\* number and the identifier mapping are as before the fragment, whatever
\* other fields the fragment carries; and a tool-call fragment whose args
\* kind or call id conflicts with the slot is refused.
C21_RefusedFragmentLeavesNothing ==
    \A k \in Steps :
        /\ ~Accepted(k) =>
               /\ log[k].parts = PartsAfter(k - 1)
               /\ log[k].index = IndexAfter(k - 1)
        /\ (OntoToolCall(k) /\ (ArgsKindsDisagree(k) \/ CallIdsDisagree(k))) =>
               /\ ~Accepted(k)
               /\ SlotAfter(k) = SlotBefore(k)
               /\ Len(log[k].parts) = Len(PartsAfter(k - 1))

\* A part with call id c1 refuses a fragment that carries a name, args and
\* call id c2, and keeps its name and args; the next fragment appends to
\* them.
C21_Witness ==
    /\ Len(log) = 3
    /\ log[1].fragment.kind = "tool_call"
    /\ log[1].parts[1] = ToolCallPart("n", ArgsJson("x"), PyStr("c1"))
    /\ OntoToolCall(2)
    /\ log[2].fragment.tool_name = PyStr("n")
    /\ log[2].fragment.args = PyStr("x")
    /\ log[2].fragment.tool_call_id = PyStr("c2")
    /\ log[2].result \in CallIdConflict
    /\ log[2].parts = log[1].parts
    /\ OntoToolCall(3)
    /\ Accepted(3)
    /\ parts[1] = ToolCallPart("nn", ArgsJson("xx"), PyStr("c1"))

\* The kind of what a slot holds: text or tool call.
KindOf(slot) == IF slot.cls = "TextPart" THEN "text" ELSE "tool_call"

\* C22: slots are only ever added: after any later fragment there are at
\* least as many slots, a slot that held a part still holds a part, and
\* every slot holds the kind it held, text or tool call.
C22_SlotsAreAppendOnly ==
    \A i, j \in Steps :
        i < j =>
            /\ Len(log[i].parts) <= Len(log[j].parts)
            /\ \A pos \in 1..Len(log[i].parts) :
                   /\ KindOf(log[j].parts[pos]) = KindOf(log[i].parts[pos])
                   /\ ~IsPending(log[i].parts[pos]) => ~IsPending(log[j].parts[pos])

\* A text slot, then a tool-call slot that is pending and then materialized.
C22_Witness ==
    /\ Len(log) = 3
    /\ log[1].fragment.kind = "text"
    /\ log[2].fragment.kind = "tool_call"
    /\ Unseen(2)
    /\ IsPending(log[2].parts[2])
    /\ IdOf(3) = IdOf(2)
    /\ IsPartStart(3)
    /\ Len(parts) = 2
    /\ parts[1].cls = "TextPart"
    /\ parts[2].cls = "ToolCallPart"

\* C23: a snapshot only reads.  Whatever snapshots were taken, the slots and
\* the identifier mapping are those the last fragment left, every fragment
\* was handled from what the fragment before it left, with the same event
\* and the same slots as without snapshots, and the snapshot taken after k
\* fragments is the snapshot of what those k fragments left.
C23_SnapshotOnlyReads ==
    /\ parts = PartsAfter(Len(log))
    /\ vendor_id_to_part_index = IndexAfter(Len(log))
    /\ \A k \in Steps :
           Handled(log[k].parts, log[k].index, log[k].result)
               = Handle(PartsAfter(k - 1), IndexAfter(k - 1), log[k].fragment)
    /\ response.cls = "ModelResponse" =>
           response.parts = get_parts(PartsAfter(response.at))

\* A snapshot taken while the first slot was pending, after which a fragment
\* materialized that slot.
C23_Witness ==
    /\ Len(log) = 3
    /\ response.cls = "ModelResponse"
    /\ response.at = 2
    /\ IsPending(log[2].parts[1])
    /\ response.parts = << >>
    /\ IdOf(3) = IdOf(1)
    /\ IsPartStart(3)
    /\ ~IsPending(parts[1])

\* The events of the fragments up to the last snapshot.
EventsBeforeSnapshot == {m \in 1..response.at : HasEvent(log[m])}

\* The number of pending slots before position p (from 0) among slots ps.
PendingSlotsBefore(ps, p) == Cardinality({i \in 1..p : IsPending(ps[i])})

\* C24 as stated: the position an event carries is the index of its part in
\* the snapshot.
C24_EventPositionIsSnapshotIndex ==
    response.cls = "ModelResponse" =>
        \A m \in EventsBeforeSnapshot :
            LET p == log[m].result.value.index
            IN  /\ p + 1 <= Len(response.parts)
                /\ response.parts[p + 1] = PartsAfter(response.at)[p + 1]

\* C24: the position an event carries is the position of the part's slot;
\* the index of the part in the snapshot is that position less the number
\* of pending slots before it, so the two are equal exactly when no slot
\* before the part is pending.
C24_EventPositionIsSlotPosition ==
    response.cls = "ModelResponse" =>
        \A m \in EventsBeforeSnapshot :
            LET ps == PartsAfter(response.at)
                p == log[m].result.value.index
                q == p - PendingSlotsBefore(ps, p)
            IN  /\ p + 1 = log[m].index[IdOf(m)] + 1
                /\ ~IsPending(ps[p + 1])
                /\ q + 1 <= Len(response.parts)
                /\ response.parts[q + 1] = ps[p + 1]

\* The first slot is pending and the second holds a part whose event carried
\* position 1; the snapshot has that part at index 0.
C24_Witness ==
    /\ response.cls = "ModelResponse"
    /\ response.at = Len(log)
    /\ Len(parts) = 2
    /\ IsPending(parts[1])
    /\ \E m \in EventsBeforeSnapshot : log[m].result.value.index = 1
    /\ response.parts = <<parts[2]>>

\* The slot a fresh identifier holds after fragment f and then fragment g.
SlotAfterBoth(f, g) ==
    LET first == Handle(<< >>, [id \in {} |-> 0], f)
        second == Handle(first.parts, first.index, g)
    IN  second.parts[1]

\* C25: for a fresh identifier, a name-only fragment followed by an
\* args-only fragment leaves the slot as the same two fragments in the other
\* order leave it, whatever the name and the args, empty ones included.
C25_NameAndArgsCommute ==
    (Len(log) >= 2 /\ IdOf(1) = IdOf(2) /\ NameOnly(1) /\ ArgsOnly(2)) =>
        /\ log[2].parts[1] = SlotAfterBoth(log[1].fragment, log[2].fragment)
        /\ SlotAfterBoth(log[1].fragment, log[2].fragment)
               = SlotAfterBoth(log[2].fragment, log[1].fragment)

---------------------------------------------------------------------------
(* pydantic_ai_graph/graph.py: Graph, GraphRunner, GraphRun *)

\* A node class: its name, what get_id() returns, and the next_node_ids of
\* its NodeDef.
NodeClass(name, id, next_node_ids) ==
    [name |-> name, id |-> id, next_node_ids |-> next_node_ids]

\* A refers to b, B refers to a, and A2 is another class whose id is also a.
NodeA == NodeClass("A", "a", {"b"})

NodeB == NodeClass("B", "b", {"a"})

NodeA2 == NodeClass("A2", "a", {})

NodeClasses == {NodeA, NodeB, NodeA2}

\* The length of the longest `nodes` argument.
MaxNodes == 3

\* The `nodes` a Graph is constructed with.
NodeLists == UNION {[1..n -> NodeClasses] : n \in 0..MaxNodes}

\* The number of steps of the longest run.
MaxSteps == 3

\* An instance of a node class, an End, and what a node must not return.
Node(class) == [type |-> "BaseNode", class |-> class]

End(data) == [type |-> "End", data |-> data]

NodeReturns ==
    {Node(class) : class \in NodeClasses} \cup {End("x"), End("y")} \cup {PyStr("junk"), None}

\* A node's run raises instead of returning.
NodeRaises == Raise("RuntimeError", "node failed")

\* Step(state, node), with the duration not yet set, and EndEvent(state, result).
Step(node) == [kind |-> "Step", node |-> node, duration |-> None]

EndEvent(result) == [kind |-> "EndEvent", result |-> result]

\* _nodes_by_id after one more node of the loop: the classes registered so
\* far in the order of their ids, or the error raised.
register(nodes_by_id, node) ==
    IF ~nodes_by_id.ok THEN nodes_by_id
    ELSE LET registered == nodes_by_id.value
             existing == {i \in DOMAIN registered : registered[i].id = node.id}
         IN  IF existing # {} /\ registered[CHOOSE i \in existing : TRUE] # node
             THEN Raise("ValueError", "Node ID is not unique")
             ELSE IF existing # {} THEN nodes_by_id
             ELSE Return(Append(registered, node))

RECURSIVE register_all(_, _)
register_all(nodes_by_id, nodes) ==
    IF nodes = << >> THEN nodes_by_id
    ELSE register_all(register(nodes_by_id, Head(nodes)), Tail(nodes))

\* Mutant of _validate_edges: no edge is found bad.
_validate_edges_accepts_all(nodes) == Return(nodes)

\* Graph._validate_edges, on the nodes of the graph.
_validate_edges(nodes) ==
    LET known_node_ids == {nodes[i].id : i \in DOMAIN nodes}
        bad_edges == UNION {nodes[i].next_node_ids \ known_node_ids : i \in DOMAIN nodes}
    IN  IF bad_edges = {} THEN Return(nodes)
        ELSE IF Cardinality(bad_edges) = 1
        THEN Raise("ValueError", "is referenced by but not included in the graph.")
        ELSE Raise("ValueError",
                   "Nodes are referenced in the graph but not included in the graph:")

\* Graph.__init__: the Graph with its nodes, or the error raised.
Graph_init(nodes) ==
    LET nodes_by_id == register_all(Return(<< >>), nodes)
    IN  IF ~nodes_by_id.ok THEN nodes_by_id
        ELSE LET validated == _validate_edges(nodes_by_id.value)
             IN  IF ~validated.ok THEN validated
                 ELSE Return([cls |-> "Graph", nodes |-> nodes_by_id.value])

\* isinstance(node, self.nodes)
isinstance_of(node, nodes) == \E i \in DOMAIN nodes : nodes[i] = node.class

\* Graph.run, before the run: the node must be an instance of a node of the
\* graph.
Graph_run(self, node) ==
    IF ~isinstance_of(node, self.nodes)
    THEN Raise("ValueError", "Node is not in the graph.")
    ELSE Return(node)

\* GraphRunner.__post_init__ and run: the first node must be a node of the
\* graph, and the run starts from an instance of it.
GraphRunner_run(self, first_node) ==
    IF \A i \in DOMAIN self.nodes : self.nodes[i] # first_node
    THEN Raise("ValueError", "Start node is not in the graph.")
    ELSE Return(Node(first_node))

\* Mutant of history_step: the step is put at the front of the history.
history_step_at_front(history, node) == <<Step(node)>> \o history

\* GraphRun.step, before the node runs: the step is appended to the history.
history_step(history, node) == Append(history, Step(node))

\* `history_step.duration = perf_counter() - start`, on the step of the node
\* that has just run.
set_duration(history, node) ==
    LET at == CHOOSE i \in DOMAIN history :
                  /\ history[i] = Step(node)
                  /\ \A j \in DOMAIN history : history[j] = Step(node) => j <= i
    IN  [history EXCEPT ![at].duration = PyStr("seconds")]

\* Mutant of run_loop: the end of the run is recorded before the type of
\* what the node returned is looked at.
run_loop_records_end_first(run, next_node) ==
    IF isinstance(next_node, "End")
    THEN [run EXCEPT !.history = Append(run.history, EndEvent(next_node)),
                     !.status = "returned", !.result = Return(next_node.data)]
    ELSE IF isinstance(next_node, "BaseNode")
    THEN [run EXCEPT !.current_node = next_node, !.status = "running"]
    ELSE [run EXCEPT !.history = Append(run.history, EndEvent(next_node)),
                     !.status = "raised",
                     !.result = Raise("TypeError",
                                      "Invalid node type. Expected BaseNode or End.")]

\* GraphRun.run, the body of the loop after step has returned next_node.
run_loop(run, next_node) ==
    IF isinstance(next_node, "End")
    THEN [run EXCEPT !.history = Append(run.history, EndEvent(next_node)),
                     !.status = "returned", !.result = Return(next_node.data)]
    ELSE IF isinstance(next_node, "BaseNode")
    THEN [run EXCEPT !.current_node = next_node, !.status = "running"]
    ELSE [run EXCEPT !.status = "raised",
                     !.result = Raise("TypeError",
                                      "Invalid node type. Expected BaseNode or End.")]

\* The variables graph.py leaves alone.
notGraphVars == <<parts, vendor_id_to_part_index, log, response, delivered, consumer,
                  phase, produced, response_stream, delta_tool_calls, yielded>>

\* Graph(nodes=...)
Construct ==
    /\ graph = NotYet
    /\ \E nodes \in NodeLists :
           graph' = [nodes_arg |-> nodes, result |-> Graph_init(nodes)]
    /\ UNCHANGED graph_run
    /\ UNCHANGED notGraphVars

\* The run begins with the node that start gave, or ends with its error.
Begin(start_node, start) ==
    graph_run' = IF start.ok
                 THEN [graph_run EXCEPT !.start = start_node, !.status = "running",
                                        !.current_node = start.value]
                 ELSE [graph_run EXCEPT !.start = start_node, !.status = "refused",
                                        !.result = start]

\* Graph.run(state, node)
GraphRunStart ==
    /\ graph # NotYet
    /\ graph.result.ok
    /\ graph_run.status = "new"
    /\ \E class \in NodeClasses : Begin(class, Graph_run(graph.result.value, Node(class)))
    /\ UNCHANGED graph
    /\ UNCHANGED notGraphVars

\* Graph.get_runner(first_node) and GraphRunner.run
GraphRunnerStart ==
    /\ graph # NotYet
    /\ graph.result.ok
    /\ graph_run.status = "new"
    /\ \E first_node \in NodeClasses :
           Begin(first_node, GraphRunner_run(graph.result.value, first_node))
    /\ UNCHANGED graph
    /\ UNCHANGED notGraphVars

\* GraphRun.step up to `await node.run(ctx)`: the step enters the history
\* and the node runs.
StepStart ==
    /\ graph_run.status = "running"
    /\ Len(graph_run.executed) < MaxSteps
    /\ graph_run' = [graph_run EXCEPT
                        !.history = history_step(graph_run.history, graph_run.current_node),
                        !.executed = Append(graph_run.executed, graph_run.current_node),
                        !.status = "in_node"]
    /\ UNCHANGED graph
    /\ UNCHANGED notGraphVars

\* The node's run is over: it raised, which ends the run, or it returned; then
\* the duration of the step is set and the loop of GraphRun.run goes on.
StepFinish ==
    /\ graph_run.status = "in_node"
    /\ \E outcome \in NodeReturns \cup {NodeRaises} :
           graph_run' =
               IF outcome = NodeRaises
               THEN [graph_run EXCEPT !.status = "raised", !.result = outcome]
               ELSE run_loop([graph_run EXCEPT
                                 !.history = set_duration(graph_run.history,
                                                          graph_run.current_node),
                                 !.returned = Append(graph_run.returned, outcome)],
                             outcome)
    /\ UNCHANGED graph
    /\ UNCHANGED notGraphVars

NextGraph ==
    \/ Construct
    \/ GraphRunStart
    \/ GraphRunnerStart
    \/ StepStart
    \/ StepFinish

SpecGraph == Init /\ [][NextGraph]_vars

\* The End a node returned last, if the last thing a node returned is one.
LastReturned == graph_run.returned[Len(graph_run.returned)]

EndWasReturned ==
    graph_run.returned # << >> /\ isinstance(LastReturned, "End")

\* The first entries of the history are the steps of the executed nodes, in
\* the order of their execution.
StepsOfExecuted ==
    /\ Len(graph_run.history) >= Len(graph_run.executed)
    /\ \A i \in DOMAIN graph_run.executed :
           /\ graph_run.history[i].kind = "Step"
           /\ graph_run.history[i].node = graph_run.executed[i]

\* The executed nodes are the start node and then what each node returned.
ExecutedInTurn ==
    \A i \in DOMAIN graph_run.executed :
        graph_run.executed[i] = IF i = 1 THEN Node(graph_run.start)
                                ELSE graph_run.returned[i - 1]

\* C26: a run that has returned leaves a history of one Step per executed
\* node, in execution order and each with the node that was run, followed by
\* exactly one EndEvent as the last entry; it returns the data of the End the
\* last node returned, and a run has returned exactly when a node returned End.
C26_HistoryOfNormalRun ==
    /\ graph_run.status = "returned" <=> EndWasReturned
    /\ graph_run.status = "returned" =>
           /\ ExecutedInTurn
           /\ StepsOfExecuted
           /\ graph_run.history =
                  SubSeq(graph_run.history, 1, Len(graph_run.executed))
                      \o <<EndEvent(LastReturned)>>
           /\ graph_run.result = Return(LastReturned.data)

\* A run of two nodes of different classes has returned the data y.
C26_Witness ==
    /\ graph_run.status = "returned"
    /\ Len(graph_run.executed) = 2
    /\ graph_run.executed[1] # graph_run.executed[2]
    /\ graph_run.result = Return("y")


\* Two different classes of the list have the same node ID.
ClassesShareId(nodes) ==
    \E i, j \in DOMAIN nodes : nodes[i] # nodes[j] /\ nodes[i].id = nodes[j].id

\* A node of the list names a next node whose ID no node of the list has.
UnknownNextNode(nodes) ==
    \E i \in DOMAIN nodes : \E next_node_id \in nodes[i].next_node_ids :
        \A j \in DOMAIN nodes : nodes[j].id # next_node_id

\* The graph holds each class of the list once, in the order in which the
\* list names them first.
Deduplicated(nodes, of_graph) ==
    /\ {of_graph[i] : i \in DOMAIN of_graph} = {nodes[i] : i \in DOMAIN nodes}
    /\ \A i, j \in DOMAIN of_graph : i < j =>
           /\ of_graph[i] # of_graph[j]
           /\ \E k \in DOMAIN nodes :
                  /\ nodes[k] = of_graph[i]
                  /\ \A l \in DOMAIN nodes : nodes[l] = of_graph[j] => k < l

\* The start node of the run is a node of the graph.
StartIsInGraph ==
    \E i \in DOMAIN graph.result.value.nodes :
        graph.result.value.nodes[i] = graph_run.start

\* C27: construction fails exactly when two different classes share a node ID
\* or a node names a next-node ID that is not in the graph, a class listed
\* twice is kept once, and a run whose start node is not a node of the graph
\* fails with a ValueError before any step is executed or recorded, while
\* every other run starts from that node.
C27_ConsistentDefinitionOnly ==
    /\ graph # NotYet =>
           /\ graph.result.ok <=>
                  ~ClassesShareId(graph.nodes_arg) /\ ~UnknownNextNode(graph.nodes_arg)
           /\ ~graph.result.ok => graph.result.raised.exc = "ValueError"
           /\ graph.result.ok => Deduplicated(graph.nodes_arg, graph.result.value.nodes)
    /\ graph_run.status # "new" =>
           /\ graph # NotYet
           /\ graph.result.ok
           /\ graph_run.status = "refused" <=> ~StartIsInGraph
           /\ graph_run.status = "refused" =>
                  /\ graph_run.history = << >>
                  /\ graph_run.executed = << >>
                  /\ ~graph_run.result.ok
                  /\ graph_run.result.raised.exc = "ValueError"
           /\ graph_run.status # "refused" /\ graph_run.executed # << >> =>
                  graph_run.executed[1] = Node(graph_run.start)

\* A graph made from a list that names one class twice has refused a start
\* node it does not hold.
C27_Witness ==
    /\ graph # NotYet
    /\ graph.result.ok
    /\ Len(graph.nodes_arg) > Len(graph.result.value.nodes)
    /\ Len(graph.result.value.nodes) = 2
    /\ graph_run.status = "refused"

\* The failing node of an aborted run: the one that was running.
FailingNode == graph_run.current_node

\* C28: when a run aborts, because a node raised or returned what is neither
\* a node nor an End (a TypeError), the history holds a Step for every node
\* that was started, the failing one last, and no EndEvent.
C28_AbortedRunHistory ==
    graph_run.status = "raised" =>
        /\ ~graph_run.result.ok
        /\ graph_run.executed # << >>
        /\ StepsOfExecuted
        /\ Len(graph_run.history) = Len(graph_run.executed)
        /\ graph_run.history[Len(graph_run.history)].node = FailingNode
        /\ \A i \in DOMAIN graph_run.history : graph_run.history[i].kind # "EndEvent"
        /\ graph_run.result.raised.exc = "TypeError" <=>
               /\ Len(graph_run.returned) = Len(graph_run.executed)
               /\ ~isinstance(LastReturned, "End")
               /\ ~isinstance(LastReturned, "BaseNode")

\* The second node of a run returned None, and the run raised a TypeError.
C28_Witness ==
    /\ graph_run.status = "raised"
    /\ graph_run.result.raised.exc = "TypeError"
    /\ Len(graph_run.executed) = 2
    /\ graph_run.returned[2] = None

====
